---- MODULE Spec2Model ----
(***************************************************************************)
(* State-machine model of the HotStuffCore replica of src/src/consensus.cpp *)
(* (fair-ordering HotStuff): block delivery, the three-chain update rule,   *)
(* voting, QC aggregation, the leader-side merge of local orders            *)
(* (fair_propose) and the commit-time ordering (fair_finalize).             *)
(*                                                                         *)
(* A HotStuffCore object is a record; every method is an operator from the  *)
(* object before the call to the object after it.  The fields fx, ret and   *)
(* err of the record hold what the last call emitted through the do_* hooks,*)
(* what it returned and what it threw.                                      *)
(***************************************************************************)
EXTENDS Integers, Sequences, FiniteSets, TLC

\* hs: the replica; env: what its callers have done; net: the replicas of the
\* specification of several replicas
VARIABLES hs, env, net

vars == <<hs, env, net>>

(***************************************************************************)
(* Bounds of the model.                                                    *)
(***************************************************************************)
\* blocks the environment or on_propose may add to the storage (b0 excluded)
MaxBlocks == 4
\* replicas of the configuration of the single-replica specifications
NReplicas == 4
\* distinct command hashes
MaxCmds == 2
\* proposals are received for the RecvWindow newest blocks of the storage
RecvWindow == 2
\* how irregular (see Irregularity) the blocks handed in may be, in total
MaxIrregular == 0
\* blocks the pacemaker proposes
MaxProposals == 1
\* calls of prune, set_vote_disabled, on_local_order, reorder and
\* on_receive_local_order, in total
MaxAux == 1
\* the greatest staleness handed to prune
MaxStaleness == 1
\* the same for the specification of a replica that only follows
FollowerBlocks == 4
FollowerIrregular == 1
\* and for the specification of a long chain whose proposals arrive in order
LongBlocks == 5
LongWindow == 1

(***************************************************************************)
(* Values.                                                                 *)
(***************************************************************************)
\* nullptr of a block_t; block hashes are the positive indexes of the storage
Null == 0
\* hash of the genesis block, the first block of the storage
b0 == 1
\* a hash no block of the storage has (a block never fetched)
UnknownHash == MaxBlocks + LongBlocks + 2
Replicas == 0 .. (NReplicas - 1)
Cmds == 1 .. MaxCmds
\* the fault tolerance handed to on_init
nfaulty == (NReplicas - 1) \div 3
\* the fairness parameter handed to on_init is 1 / GammaInv
GammaInv == 2
\* what an out-of-bounds read of a command vector may yield besides a command
Garbage == MaxCmds + 1

\* a null quorum_cert_bt
NoQC == [obj |-> Null, parts |-> {}, computed |-> FALSE]
\* create_quorum_cert(hash): an empty certificate for hash
create_quorum_cert(hash) == [obj |-> hash, parts |-> {}, computed |-> FALSE]
\* QuorumCert::add_part
add_part(qc, rid) == [qc EXCEPT !.parts = @ \cup {rid}]
\* QuorumCert::compute
compute(qc) == [qc EXCEPT !.computed = TRUE]

Max(a, b) == IF a > b THEN a ELSE b
SeqToSet(q) == {q[i] : i \in 1 .. Len(q)}
Contains(q, x) == \E i \in 1 .. Len(q) : q[i] = x
Reverse(q) == [i \in 1 .. Len(q) |-> q[Len(q) + 1 - i]]

(***************************************************************************)
(* std::sort on at most 16 elements is libstdc++'s insertion sort.  lt is   *)
(* the comparator, a function lt[a][b].                                    *)
(***************************************************************************)
\* one step of __insertion_sort: val enters the sorted prefix p
InsertStep(p, val, lt) ==
    IF lt[val][p[1]]
    THEN <<val>> \o p
    ELSE LET stops == {k \in 1 .. Len(p) : ~lt[val][p[k]]}
             k == CHOOSE x \in stops : \A y \in stops : y <= x
         IN SubSeq(p, 1, k) \o <<val>> \o SubSeq(p, k + 1, Len(p))

RECURSIVE InsertionSortFrom(_, _, _)
InsertionSortFrom(v, i, lt) ==
    IF i > Len(v)
    THEN v
    ELSE InsertionSortFrom(
             InsertStep(SubSeq(v, 1, i - 1), v[i], lt) \o SubSeq(v, i + 1, Len(v)),
             i + 1, lt)

std_sort(v, lt) == IF Len(v) < 2 THEN v ELSE InsertionSortFrom(v, 2, lt)

\* the keys of a std::map<uint256_t, ...> in iteration order: ascending hash
RECURSIVE Ascending(_)
Ascending(S) ==
    IF S = {}
    THEN <<>>
    ELSE LET m == CHOOSE x \in S : \A y \in S : x <= y
         IN <<m>> \o Ascending(S \ {m})

RECURSIVE Pow(_, _)
Pow(a, n) == IF n = 0 THEN 1 ELSE a * Pow(a, n - 1)

RECURSIVE SumOver(_, _)
\* the sum of f over the finite set S
SumOver(f, S) ==
    IF S = {}
    THEN 0
    ELSE LET x == CHOOSE y \in S : TRUE IN f[x] + SumOver(f, S \ {x})

(***************************************************************************)
(* fair_finalize.  A block's orders map is the sequence of its entries     *)
(* [rid, cmds] in the iteration order of the unordered_map, so orders[1]   *)
(* is orders.begin().                                                      *)
(***************************************************************************)
OrderLens(orders) == {Len(orders[k].cmds) : k \in 1 .. Len(orders)}
MaxLen(orders) == CHOOSE n \in OrderLens(orders) \cup {0} :
                      \A m \in OrderLens(orders) : m <= n
OrderCmds(orders) == UNION {SeqToSet(orders[k].cmds) : k \in 1 .. Len(orders)}

\* tmp[idx] of a copied command vector; past its end the read is out of bounds
ReadAt(tmp, idx, oob) == IF idx <= Len(tmp) THEN tmp[idx] ELSE oob

\* fair_finalize has undefined behaviour on this map: begin() of an empty map is
\* dereferenced, or a sequence shorter than the first one is read past its end
fair_finalize_ub(orders) ==
    \/ orders = <<>>
    \/ \E k \in 1 .. Len(orders) : Len(orders[k].cmds) < Len(orders[1].cmds)

\* cmd_weight[c], scaled by GammaInv^MaxLen: the sum over the map's entries and
\* the 1-based positions i of c of (1 - gamma^i)
cmd_weight(orders, c) ==
    LET K == MaxLen(orders)
        Occ == {<<k, i>> \in (1 .. Len(orders)) \X (1 .. K) :
                    i <= Len(orders[k].cmds) /\ orders[k].cmds[i] = c}
        term == [o \in Occ |-> Pow(GammaInv, K) - Pow(GammaInv, K - o[2])]
    IN SumOver(term, Occ)

\* weight_count[a][b]: the pairs from < to < len with tmp[from] = a, tmp[to] = b
weight_count(orders, a, b, oob) ==
    LET len == IF orders = <<>> THEN 0 ELSE Len(orders[1].cmds)
    IN Cardinality({<<k, from, to>> \in (1 .. Len(orders)) \X (1 .. len) \X (1 .. len) :
           /\ from < to
           /\ ReadAt(orders[k].cmds, from, oob) = a
           /\ ReadAt(orders[k].cmds, to, oob) = b})

\* cmp: ascending weight
WeightLess(orders) ==
    LET K == OrderCmds(orders)
    IN [a \in K |-> [b \in K |-> cmd_weight(orders, a) < cmd_weight(orders, b)]]

\* the comparator of the second sort: pairwise majority, ties by smaller hash
PairLess(orders, oob) ==
    LET K == OrderCmds(orders)
    IN [a \in K |-> [b \in K |->
           IF weight_count(orders, a, b, oob) = weight_count(orders, b, a, oob)
           THEN a < b
           ELSE weight_count(orders, a, b, oob) > weight_count(orders, b, a, oob)]]

\* a fair_finalize that sorts the commands of the first and of the last entry,
\* one after the other, in the place of the keys of cmd_weight
fair_finalize_twice(orders, oob) ==
    LET vec == IF orders = <<>> THEN <<>>
               ELSE orders[1].cmds \o orders[Len(orders)].cmds
        order == std_sort(vec, WeightLess(orders))
    IN std_sort(order, PairLess(orders, oob))

\* the value fair_finalize returns when it does not crash; oob is what the
\* out-of-bounds reads yield
fair_finalize(orders, oob) ==
    LET vec == Ascending(OrderCmds(orders))
        order == std_sort(vec, WeightLess(orders))
    IN std_sort(order, PairLess(orders, oob))

(***************************************************************************)
(* Blocks and the storage.  A block object holds what it was built from    *)
(* (parent_hashes, qc, orders) and what the core fills in (parents, height,*)
(* qc_ref, self_qc, voted, delivered, decision).  stored says whether the  *)
(* storage still holds it.                                                 *)
(***************************************************************************)
\* Block(true, 1): the genesis block, delivered and decided
Genesis ==
    [parent_hashes |-> <<>>, qc |-> NoQC, orders |-> <<>>, parents |-> <<>>,
     height |-> 1, qc_ref |-> Null, self_qc |-> NoQC, voted |-> {},
     delivered |-> TRUE, decision |-> 1, stored |-> TRUE]

\* a block as Block::unserialize leaves it: nothing resolved yet
NetBlock(parent_hashes, qc, orders) ==
    [parent_hashes |-> parent_hashes, qc |-> qc, orders |-> orders, parents |-> <<>>,
     height |-> 0, qc_ref |-> Null, self_qc |-> NoQC, voted |-> {},
     delivered |-> FALSE, decision |-> 0, stored |-> TRUE]

\* EntityStorage::find_blk: the block of that hash, or nullptr
find_blk(s, hash) ==
    IF hash \in 1 .. Len(s.blocks) /\ s.blocks[hash].stored THEN hash ELSE Null

\* EntityStorage::add_blk: the new block's hash is its index
add_blk(s, blk) == [s EXCEPT !.blocks = Append(@, blk)]

\* an exception leaves the call with what it had done so far
Throw(s, what) == [s EXCEPT !.err = what]
\* the process dies on a memory fault
Crash(s) == [s EXCEPT !.err = "crash", !.crashed = TRUE]
Emit(s, e) == [s EXCEPT !.fx = Append(@, e)]

(***************************************************************************)
(* HotStuffCore.                                                           *)
(***************************************************************************)
\* HotStuffCore::HotStuffCore
HotStuffCore(id) ==
    [id |-> id,
     blocks |-> <<Genesis>>,
     hqc |-> [first |-> Null, second |-> NoQC],
     b_lock |-> b0,
     b_exec |-> b0,
     vheight |-> 0,
     tails |-> {b0},
     vote_disabled |-> FALSE,
     qc_waiting |-> {},
     nreplicas |-> 0,
     nmajority |-> 0,
     local_order_cache |-> <<>>,
     seen_propose_level |-> {},
     seen_execute_level |-> {},
     proposed_cmds |-> {},
     votelog |-> <<>>,
     op |-> "construct", ret |-> TRUE, err |-> "", fx |-> <<>>,
     crashed |-> FALSE]

\* HotStuffCore::add_replica
add_replica(s, rid) ==
    [s EXCEPT !.nreplicas = @ + 1,
              !.blocks[b0].voted = @ \cup {rid}]

RECURSIVE add_replicas(_, _)
add_replicas(s, rids) ==
    IF rids = {}
    THEN s
    ELSE LET r == CHOOSE x \in rids : \A y \in rids : x <= y
         IN add_replicas(add_replica(s, r), rids \ {r})

\* on_init with a majority one replica short
on_init_short(s, nf) ==
    LET qc == compute(create_quorum_cert(b0))
    IN [s EXCEPT !.nmajority = s.nreplicas - nf - 1,
                 !.blocks[b0].qc = qc,
                 !.blocks[b0].self_qc = qc,
                 !.blocks[b0].qc_ref = b0,
                 !.hqc = [first |-> b0, second |-> qc],
                 !.op = "on_init"]

\* HotStuffCore::on_init
on_init(s, nf) ==
    LET qc == compute(create_quorum_cert(b0))
    IN [s EXCEPT !.nmajority = s.nreplicas - nf,
                 !.blocks[b0].qc = qc,
                 !.blocks[b0].self_qc = qc,
                 !.blocks[b0].qc_ref = b0,
                 !.hqc = [first |-> b0, second |-> qc],
                 !.op = "on_init"]

\* HotStuffCore::on_hqc_update: the hqc waiter is resolved and replaced
on_hqc_update(s) == Emit(s, [e |-> "resolve", w |-> "hqc_update_waiting", blk |-> s.hqc.first])

\* update_hqc without its comparison of the heights
update_hqc_any(s, _hqc, qc) ==
    on_hqc_update([s EXCEPT !.hqc = [first |-> _hqc, second |-> qc]])

\* HotStuffCore::update_hqc
update_hqc(s, _hqc, qc) ==
    IF s.blocks[_hqc].height > s.blocks[s.hqc.first].height
    THEN on_hqc_update([s EXCEPT !.hqc = [first |-> _hqc, second |-> qc]])
    ELSE s

\* an on_qc_finish that leaves the waiter pending
on_qc_finish_keep(s, blk) == s

\* HotStuffCore::async_qc_finish: a promise that is resolved at once when blk
\* has its quorum, the waiter of blk otherwise
async_qc_finish(s, blk) ==
    IF Cardinality(s.blocks[blk].voted) >= s.nmajority
    THEN Emit(s, [e |-> "resolve", w |-> "qc_finished", blk |-> blk])
    ELSE [s EXCEPT !.qc_waiting = @ \cup {blk}]

\* HotStuffCore::on_qc_finish
on_qc_finish(s, blk) ==
    IF blk \in s.qc_waiting
    THEN Emit([s EXCEPT !.qc_waiting = @ \ {blk}],
              [e |-> "resolve", w |-> "qc_waiting", blk |-> blk])
    ELSE s

\* a delivery that never asks whether the parents are delivered
IsDelivered_fetched(s, hash) == find_blk(s, hash) # Null

\* get_delivered_blk does not throw for this hash
IsDelivered(s, hash) == find_blk(s, hash) # Null /\ s.blocks[hash].delivered

\* what on_deliver_blk does to a block it takes for undelivered
resolve_blk(s, blk) ==
    LET hashes == s.blocks[blk].parent_hashes
        bad == {i \in 1 .. Len(hashes) : ~IsDelivered(s, hashes[i])}
        qc == s.blocks[blk].qc
    IN IF hashes = <<>>
       THEN \* parents[0] of a vector that never held a block: a null pointer
            Crash([s EXCEPT !.blocks[blk].parents = <<>>])
       ELSE IF bad # {}
       THEN \* parents holds the hashes resolved before the throw
            LET k == CHOOSE i \in bad : \A j \in bad : i <= j
            IN Throw([s EXCEPT !.blocks[blk].parents = SubSeq(hashes, 1, k - 1)],
                     "block not delivered")
       ELSE
       LET s1 == [s EXCEPT !.blocks[blk].parents = hashes,
                           !.blocks[blk].height = s.blocks[hashes[1]].height + 1]
       IN IF qc.obj # Null /\ find_blk(s1, qc.obj) = Null
          THEN Throw(s1, "block referred by qc not fetched")
          ELSE [s1 EXCEPT !.blocks[blk].qc_ref = qc.obj,
                          !.tails = (@ \ SeqToSet(hashes)) \cup {blk},
                          !.blocks[blk].delivered = TRUE,
                          !.ret = TRUE]

\* on_deliver_blk without its test of the delivered flag
on_deliver_blk_again(s, blk) == resolve_blk(s, blk)

\* HotStuffCore::on_deliver_blk
on_deliver_blk(s, blk) ==
    IF s.blocks[blk].delivered
    THEN [s EXCEPT !.ret = FALSE]
    ELSE resolve_blk(s, blk)

\* parents[0] of b as a walk reads it.  When the vector is empty the read is
\* out of bounds: the process dies (Null), or the slot still holds the parent it
\* held before prune popped it
Parent0(s, b, ub) ==
    IF s.blocks[b].parents # <<>>
    THEN s.blocks[b].parents[1]
    ELSE IF ~ub.crash /\ s.blocks[b].parent_hashes # <<>>
    THEN s.blocks[b].parent_hashes[1]
    ELSE Null

\* the block a walk along parents[0] from b stops at: the first of height <= h;
\* Null when the walk dies
RECURSIVE WalkEnd(_, _, _, _)
WalkEnd(s, b, h, ub) ==
    IF s.blocks[b].height > h
    THEN IF Parent0(s, b, ub) = Null
         THEN Null
         ELSE WalkEnd(s, Parent0(s, b, ub), h, ub)
    ELSE b

\* the blocks such a walk passes, b first
RECURSIVE WalkPath(_, _, _, _)
WalkPath(s, b, h, ub) ==
    IF s.blocks[b].height > h /\ Parent0(s, b, ub) # Null
    THEN <<b>> \o WalkPath(s, Parent0(s, b, ub), h, ub)
    ELSE <<>>

\* a commit that decides no command
Finalities_none(s, blk, order) == <<>>

\* the finalities in the order of the hashes, whatever the final order
Finalities_sorted(s, blk, order) ==
    LET sorted == Ascending(SeqToSet(order))
    IN [i \in 1 .. Len(sorted) |->
           [e |-> "do_decide", rid |-> s.id, decision |-> 1, cmd_idx |-> i - 1,
            cmd_height |-> s.blocks[blk].height, cmd_hash |-> sorted[i], blk |-> blk]]

\* Finality(id, 1, i, blk->height, order[i], blk->get_hash()) for every i
Finalities(s, blk, order) ==
    [i \in 1 .. Len(order) |->
        [e |-> "do_decide", rid |-> s.id, decision |-> 1, cmd_idx |-> i - 1,
         cmd_height |-> s.blocks[blk].height, cmd_hash |-> order[i], blk |-> blk]]

\* the commit loop without the test that breaks it
RECURSIVE CommitLoop_through(_, _, _, _)
CommitLoop_through(s, queue, i, ub) ==
    IF i > Len(queue)
    THEN s
    ELSE
    LET blk == queue[i]
        orders == s.blocks[blk].orders
    IN IF fair_finalize_ub(orders) /\ ub.crash
       THEN Crash(s)
       ELSE
       LET order == fair_finalize(orders, ub.oob)
       IN CommitLoop_through(
              [s EXCEPT !.blocks[blk].decision = 1,
                        !.fx = (@ \o <<[e |-> "do_consensus", blk |-> blk]>>)
                                  \o Finalities(s, blk, order),
                        !.seen_execute_level = @ \ SeqToSet(order),
                        !.proposed_cmds = @ \ SeqToSet(order),
                        !.b_exec = blk],
              queue, i + 1, ub)

\* the commit loop with continue in the place of break
RECURSIVE CommitLoop_skip(_, _, _, _)
CommitLoop_skip(s, queue, i, ub) ==
    IF i > Len(queue)
    THEN s
    ELSE
    LET blk == queue[i]
        orders == s.blocks[blk].orders
    IN IF fair_finalize_ub(orders) /\ ub.crash
       THEN Crash(s)
       ELSE
       LET order == fair_finalize(orders, ub.oob)
       IN IF order = <<>> /\ orders # <<>>
          THEN CommitLoop_skip(s, queue, i + 1, ub)
          ELSE CommitLoop_skip(
                   [s EXCEPT !.blocks[blk].decision = 1,
                             !.fx = (@ \o <<[e |-> "do_consensus", blk |-> blk]>>)
                                       \o Finalities(s, blk, order),
                             !.seen_execute_level = @ \ SeqToSet(order),
                             !.proposed_cmds = @ \ SeqToSet(order),
                             !.b_exec = blk],
                   queue, i + 1, ub)

\* the commit loop of update over commit_queue, oldest block first
RECURSIVE CommitLoop(_, _, _, _)
CommitLoop(s, queue, i, ub) ==
    IF i > Len(queue)
    THEN s
    ELSE
    LET blk == queue[i]
        orders == s.blocks[blk].orders
    IN IF fair_finalize_ub(orders) /\ ub.crash
       THEN Crash(s)
       ELSE
       LET order == fair_finalize(orders, ub.oob)
       IN IF order = <<>> /\ orders # <<>>
          THEN s
          ELSE CommitLoop(
                   [s EXCEPT !.blocks[blk].decision = 1,
                             !.fx = (@ \o <<[e |-> "do_consensus", blk |-> blk]>>)
                                       \o Finalities(s, blk, order),
                             !.seen_execute_level = @ \ SeqToSet(order),
                             !.proposed_cmds = @ \ SeqToSet(order),
                             !.b_exec = blk],
                   queue, i + 1, ub)

\* the commit part of update with a commit_queue of blk alone
Commit_tip(s, blk, ub) ==
    LET h == s.blocks[s.b_exec].height
        b == WalkEnd(s, blk, h, ub)
    IN IF b = Null
       THEN Crash(s)
       ELSE IF b # s.b_exec
       THEN Throw(s, "safety breached")
       ELSE CommitLoop(s, <<blk>>, 1, ub)

\* an update that stops before the commit part
Commit_none(s, blk, ub) == s

\* the commit part of update without the test b != b_exec
Commit_unchecked(s, blk, ub) ==
    LET h == s.blocks[s.b_exec].height
    IN IF WalkEnd(s, blk, h, ub) = Null
       THEN Crash(s)
       ELSE CommitLoop(s, Reverse(WalkPath(s, blk, h, ub)), 1, ub)

\* the commit part of update: everything from b_exec (exclusive) up to blk
Commit(s, blk, ub) ==
    LET h == s.blocks[s.b_exec].height
        b == WalkEnd(s, blk, h, ub)
    IN IF b = Null
       THEN Crash(s)
       ELSE IF b # s.b_exec
       THEN Throw(s, "safety breached")
       ELSE CommitLoop(s, Reverse(WalkPath(s, blk, h, ub)), 1, ub)

\* the three-step rule without its test of the direct parents
ThreeStep_loose(s, nblk, ub) ==
    LET blk2 == s.blocks[nblk].qc_ref
    IN IF blk2 = Null \/ s.blocks[blk2].decision # 0
       THEN s
       ELSE
       LET s2 == update_hqc(s, blk2, s.blocks[nblk].qc)
           blk1 == s2.blocks[blk2].qc_ref
       IN IF blk1 = Null \/ s2.blocks[blk1].decision # 0
          THEN s2
          ELSE
          LET s3 == IF s2.blocks[blk1].height > s2.blocks[s2.b_lock].height
                    THEN [s2 EXCEPT !.b_lock = blk1]
                    ELSE s2
              blk == s3.blocks[blk1].qc_ref
          IN IF blk = Null \/ s3.blocks[blk].decision # 0
             THEN s3
             ELSE Commit(s3, blk, ub)

\* the three-step rule without the update of b_lock
ThreeStep_unlocked(s, nblk, ub) ==
    LET blk2 == s.blocks[nblk].qc_ref
    IN IF blk2 = Null \/ s.blocks[blk2].decision # 0
       THEN s
       ELSE
       LET s2 == update_hqc(s, blk2, s.blocks[nblk].qc)
           blk1 == s2.blocks[blk2].qc_ref
       IN IF blk1 = Null \/ s2.blocks[blk1].decision # 0
          THEN s2
          ELSE
          LET blk == s2.blocks[blk1].qc_ref
          IN IF blk = Null \/ s2.blocks[blk].decision # 0
             THEN s2
             ELSE IF Parent0(s2, blk2, ub) = Null
             THEN Crash(s2)
             ELSE IF Parent0(s2, blk2, ub) # blk1
             THEN s2
             ELSE IF Parent0(s2, blk1, ub) = Null
             THEN Crash(s2)
             ELSE IF Parent0(s2, blk1, ub) # blk
             THEN s2
             ELSE Commit(s2, blk, ub)

\* the three-step rule of update, after the seen-cache was updated
ThreeStep(s, nblk, ub) ==
    LET blk2 == s.blocks[nblk].qc_ref
    IN IF blk2 = Null \/ s.blocks[blk2].decision # 0
       THEN s
       ELSE
       LET s2 == update_hqc(s, blk2, s.blocks[nblk].qc)
           blk1 == s2.blocks[blk2].qc_ref
       IN IF blk1 = Null \/ s2.blocks[blk1].decision # 0
          THEN s2
          ELSE
          LET s3 == IF s2.blocks[blk1].height > s2.blocks[s2.b_lock].height
                    THEN [s2 EXCEPT !.b_lock = blk1]
                    ELSE s2
              blk == s3.blocks[blk1].qc_ref
          IN IF blk = Null \/ s3.blocks[blk].decision # 0
             THEN s3
             ELSE IF Parent0(s3, blk2, ub) = Null
             THEN Crash(s3)
             ELSE IF Parent0(s3, blk2, ub) # blk1
             THEN s3
             ELSE IF Parent0(s3, blk1, ub) = Null
             THEN Crash(s3)
             ELSE IF Parent0(s3, blk1, ub) # blk
             THEN s3
             ELSE Commit(s3, blk, ub)

\* HotStuffCore::update.  ub says how the undefined behaviour it can run into
\* comes out: ub.crash, a memory fault or not; ub.oob, what a read past the end
\* of a command vector yields.
update(s, nblk, ub) ==
    LET orders == s.blocks[nblk].orders
    IN IF orders = <<>> /\ ub.crash
       THEN Crash(s)
       ELSE LET front == IF orders = <<>> THEN <<>> ELSE orders[1].cmds
            IN ThreeStep([s EXCEPT !.seen_propose_level = @ \ SeqToSet(front)],
                         nblk, ub)

\* an opinion that takes any higher block, on the locked branch or not
Opinion_unlocked(s, bnew, ub) == s.blocks[bnew].height > s.vheight

\* the opinion with bnew->height >= vheight as its first test
Opinion_ge(s, bnew, ub) ==
    LET qc_ref == s.blocks[bnew].qc_ref
    IN IF s.blocks[bnew].height >= s.vheight
       THEN IF qc_ref # Null /\ s.blocks[qc_ref].height > s.blocks[s.b_lock].height
            THEN TRUE
            ELSE WalkEnd(s, bnew, s.blocks[s.b_lock].height, ub) = s.b_lock
       ELSE FALSE

\* the opinion of on_receive_proposal on bnew
Opinion(s, bnew, ub) ==
    LET qc_ref == s.blocks[bnew].qc_ref
    IN IF s.blocks[bnew].height > s.vheight
       THEN IF qc_ref # Null /\ s.blocks[qc_ref].height > s.blocks[s.b_lock].height
            THEN TRUE
            ELSE WalkEnd(s, bnew, s.blocks[s.b_lock].height, ub) = s.b_lock
       ELSE FALSE

\* the walk of the safety condition dies
OpinionUB(s, bnew, ub) ==
    LET qc_ref == s.blocks[bnew].qc_ref
    IN /\ s.blocks[bnew].height > s.vheight
       /\ ~(qc_ref # Null /\ s.blocks[qc_ref].height > s.blocks[s.b_lock].height)
       /\ WalkEnd(s, bnew, s.blocks[s.b_lock].height, ub) = Null

\* a vote decision that leaves vheight alone
set_vheight_skip(s, bnew) == s

\* vheight = bnew->height, in both branches of the vote decision
set_vheight(s, bnew) == [s EXCEPT !.vheight = s.blocks[bnew].height]

\* a vote decision that does not look at vote_disabled
Decide_force(s, proposer, bnew, ub) ==
    IF OpinionUB(s, bnew, ub)
    THEN Crash(s)
    ELSE
    LET opinion == Opinion(s, bnew, ub)
        qc_ref == s.blocks[bnew].qc_ref
        s1 == IF opinion THEN set_vheight(s, bnew) ELSE s
        s2 == IF proposer # s.id /\ qc_ref # Null THEN on_qc_finish(s1, qc_ref) ELSE s1
        s3 == Emit(s2, [e |-> "resolve", w |-> "receive_proposal_waiting", blk |-> bnew])
    IN IF opinion
       THEN [Emit(s3, [e |-> "do_vote", proposer |-> proposer, voter |-> s.id, blk |-> bnew])
                EXCEPT !.votelog = Append(@, bnew)]
       ELSE s3

\* a vote decision that raises vheight only when it votes
Decide_quiet(s, proposer, bnew, ub) ==
    IF OpinionUB(s, bnew, ub)
    THEN Crash(s)
    ELSE
    LET opinion == Opinion(s, bnew, ub) /\ ~s.vote_disabled
        qc_ref == s.blocks[bnew].qc_ref
        s1 == IF opinion THEN set_vheight(s, bnew) ELSE s
        s2 == IF proposer # s.id /\ qc_ref # Null THEN on_qc_finish(s1, qc_ref) ELSE s1
        s3 == Emit(s2, [e |-> "resolve", w |-> "receive_proposal_waiting", blk |-> bnew])
    IN IF opinion
       THEN [Emit(s3, [e |-> "do_vote", proposer |-> proposer, voter |-> s.id, blk |-> bnew])
                EXCEPT !.votelog = Append(@, bnew)]
       ELSE s3

\* what on_receive_proposal does after its update: the vote decision, the
\* waiters and the vote
Decide(s, proposer, bnew, ub) ==
    IF OpinionUB(s, bnew, ub)
    THEN Crash(s)
    ELSE
    LET opinion == Opinion(s, bnew, ub)
        self_prop == proposer = s.id
        qc_ref == s.blocks[bnew].qc_ref
        s1 == IF opinion THEN set_vheight(s, bnew) ELSE s
        s2 == IF ~self_prop /\ qc_ref # Null THEN on_qc_finish(s1, qc_ref) ELSE s1
        s3 == Emit(s2, [e |-> "resolve", w |-> "receive_proposal_waiting", blk |-> bnew])
    IN IF opinion /\ ~s3.vote_disabled
       THEN [Emit(s3, [e |-> "do_vote", proposer |-> proposer, voter |-> s.id, blk |-> bnew])
                EXCEPT !.votelog = Append(@, bnew)]
       ELSE s3

\* on_receive_proposal without sanity_check_delivered
on_receive_proposal_unchecked(s, proposer, bnew, ub) ==
    IF proposer # s.id
    THEN LET s1 == update(s, bnew, ub)
         IN IF s1.err # "" THEN s1 ELSE Decide(s1, proposer, bnew, ub)
    ELSE Decide(s, proposer, bnew, ub)

\* HotStuffCore::on_receive_proposal
on_receive_proposal(s, proposer, bnew, ub) ==
    IF proposer # s.id
    THEN IF ~s.blocks[bnew].delivered
         THEN Throw(s, "block not delivered")
         ELSE LET s1 == update(s, bnew, ub)
              IN IF s1.err # "" THEN s1 ELSE Decide(s1, proposer, bnew, ub)
    ELSE Decide(s, proposer, bnew, ub)

\* a quorum one vote early
quorum_reached_early(s, qsize) == qsize + 2 = s.nmajority

\* qsize + 1 == config.nmajority
quorum_reached(s, qsize) == qsize + 1 = s.nmajority

\* on_receive_vote without the return when voted holds a majority
on_receive_vote_late(s, voter, blk) ==
    IF ~IsDelivered(s, blk)
    THEN Throw(s, "block not delivered")
    ELSE
    LET qsize == Cardinality(s.blocks[blk].voted)
    IN IF voter \in s.blocks[blk].voted
       THEN s
       ELSE
       LET qc0 == IF s.blocks[blk].self_qc.obj = Null
                  THEN create_quorum_cert(blk)
                  ELSE s.blocks[blk].self_qc
           qc1 == add_part(qc0, voter)
           s1 == [s EXCEPT !.blocks[blk].voted = @ \cup {voter},
                           !.blocks[blk].self_qc = qc1]
       IN IF quorum_reached(s, qsize)
          THEN LET s2 == Emit([s1 EXCEPT !.blocks[blk].self_qc = compute(qc1)],
                              [e |-> "compute", blk |-> blk])
               IN on_qc_finish(update_hqc(s2, blk, compute(qc1)), blk)
          ELSE s1

\* on_receive_vote without the test of the insertion into voted
on_receive_vote_dup(s, voter, blk) ==
    IF ~IsDelivered(s, blk)
    THEN Throw(s, "block not delivered")
    ELSE
    LET qsize == Cardinality(s.blocks[blk].voted)
    IN IF qsize >= s.nmajority
       THEN s
       ELSE
       LET qc0 == IF s.blocks[blk].self_qc.obj = Null
                  THEN create_quorum_cert(blk)
                  ELSE s.blocks[blk].self_qc
           qc1 == add_part(qc0, voter)
           s1 == [s EXCEPT !.blocks[blk].voted = @ \cup {voter},
                           !.blocks[blk].self_qc = qc1]
       IN IF quorum_reached(s, qsize)
          THEN LET s2 == Emit([s1 EXCEPT !.blocks[blk].self_qc = compute(qc1)],
                              [e |-> "compute", blk |-> blk])
               IN on_qc_finish(update_hqc(s2, blk, compute(qc1)), blk)
          ELSE s1

\* HotStuffCore::on_receive_vote
on_receive_vote(s, voter, blk) ==
    IF ~IsDelivered(s, blk)
    THEN Throw(s, "block not delivered")
    ELSE
    LET qsize == Cardinality(s.blocks[blk].voted)
    IN IF qsize >= s.nmajority
       THEN s
       ELSE IF voter \in s.blocks[blk].voted
       THEN s
       ELSE
       LET qc0 == IF s.blocks[blk].self_qc.obj = Null
                  THEN create_quorum_cert(blk)
                  ELSE s.blocks[blk].self_qc
           qc1 == add_part(qc0, voter)
           s1 == [s EXCEPT !.blocks[blk].voted = @ \cup {voter},
                           !.blocks[blk].self_qc = qc1]
       IN IF quorum_reached(s, qsize)
          THEN LET s2 == Emit([s1 EXCEPT !.blocks[blk].self_qc = compute(qc1)],
                              [e |-> "compute", blk |-> blk])
               IN on_qc_finish(update_hqc(s2, blk, compute(qc1)), blk)
          ELSE s1

\* on_propose without the test of the new block's height against vheight
on_propose_low(s, orders, parents, ub) ==
    IF parents = <<>>
    THEN Throw(s, "empty parents")
    ELSE
    LET bnew == Len(s.blocks) + 1
        blk == [parent_hashes |-> parents, qc |-> s.hqc.second, orders |-> orders,
                parents |-> parents, height |-> s.blocks[parents[1]].height + 1,
                qc_ref |-> s.hqc.first, self_qc |-> create_quorum_cert(bnew),
                voted |-> {}, delivered |-> FALSE, decision |-> 0, stored |-> TRUE]
        s1 == add_blk([s EXCEPT !.tails = @ \ SeqToSet(parents)], blk)
        s2 == on_deliver_blk(s1, bnew)
        s3 == IF s2.err # "" THEN s2 ELSE update(s2, bnew, ub)
    IN IF s3.err # ""
       THEN s3
       ELSE
       LET s4 == on_receive_proposal(s3, s3.id, bnew, ub)
       IN IF s4.err # ""
          THEN s4
          ELSE [Emit(Emit(s4, [e |-> "resolve", w |-> "propose_waiting", blk |-> bnew]),
                     [e |-> "do_broadcast_proposal", proposer |-> s.id, blk |-> bnew])
                  EXCEPT !.ret = TRUE]

\* HotStuffCore::on_propose
on_propose(s, orders, parents, ub) ==
    IF parents = <<>>
    THEN Throw(s, "empty parents")
    ELSE
    LET bnew == Len(s.blocks) + 1
        blk == [parent_hashes |-> parents, qc |-> s.hqc.second, orders |-> orders,
                parents |-> parents, height |-> s.blocks[parents[1]].height + 1,
                qc_ref |-> s.hqc.first, self_qc |-> create_quorum_cert(bnew),
                voted |-> {}, delivered |-> FALSE, decision |-> 0, stored |-> TRUE]
        s1 == add_blk([s EXCEPT !.tails = @ \ SeqToSet(parents)], blk)
        s2 == on_deliver_blk(s1, bnew)
        s3 == IF s2.err # "" THEN s2 ELSE update(s2, bnew, ub)
    IN IF s3.err # ""
       THEN s3
       ELSE IF s3.blocks[bnew].height <= s3.vheight
       THEN Throw(s3, "new block should be higher than vheight")
       ELSE
       LET s4 == on_receive_proposal(s3, s3.id, bnew, ub)
       IN IF s4.err # ""
          THEN s4
          ELSE [Emit(Emit(s4, [e |-> "resolve", w |-> "propose_waiting", blk |-> bnew]),
                     [e |-> "do_broadcast_proposal", proposer |-> s.id, blk |-> bnew])
                  EXCEPT !.ret = TRUE]

\* the block prune starts from: staleness steps from b_exec along parents[0];
\* Null when the chain is shorter
RECURSIVE PruneStart(_, _, _)
PruneStart(s, start, staleness) ==
    IF staleness = 0
    THEN start
    ELSE IF s.blocks[start].parents = <<>>
    THEN Null
    ELSE PruneStart(s, s.blocks[start].parents[1], staleness - 1)

\* somebody other than the storage and the caller's own handle refers to blk
Referenced(s, blk, start) ==
    \/ blk \in {b0, s.hqc.first, s.b_lock, s.b_exec, start}
    \/ blk \in s.tails \cup s.qc_waiting
    \/ \E b \in 1 .. Len(s.blocks) :
          blk \in SeqToSet(s.blocks[b].parents) \cup {s.blocks[b].qc_ref}

\* EntityStorage::try_release_blk: the storage drops a block nobody else holds
try_release_blk(s, blk, start) ==
    IF Referenced(s, blk, start)
    THEN s
    ELSE Emit([s EXCEPT !.blocks[blk].stored = FALSE], [e |-> "release", blk |-> blk])

\* the loop of prune over its stack
RECURSIVE PruneLoop(_, _, _)
PruneLoop(s, stack, start) ==
    IF stack = <<>>
    THEN s
    ELSE
    LET blk == stack[Len(stack)]
        ps == s.blocks[blk].parents
    IN IF ps = <<>>
       THEN PruneLoop(try_release_blk(s, blk, start),
                      SubSeq(stack, 1, Len(stack) - 1), start)
       ELSE PruneLoop([s EXCEPT !.blocks[blk].qc_ref = Null,
                                !.blocks[blk].parents = SubSeq(ps, 1, Len(ps) - 1)],
                      Append(stack, ps[Len(ps)]), start)

\* HotStuffCore::prune
prune(s, staleness) ==
    LET start == PruneStart(s, s.b_exec, staleness)
    IN IF start = Null
       THEN s
       ELSE PruneLoop([s EXCEPT !.blocks[start].qc_ref = Null], <<start>>, start)

\* HotStuffCore::set_vote_disabled
set_vote_disabled(s, f) == [s EXCEPT !.vote_disabled = f]

(***************************************************************************)
(* The local-order cache of the storage: one entry [rid, queue] per replica *)
(* that contributed, in the order of the first contribution; queue is the  *)
(* FIFO of the command vectors received from rid.                          *)
(***************************************************************************)
\* the index of rid's entry in the cache, 0 when it has none
CacheIdx(s, rid) ==
    LET I == {k \in 1 .. Len(s.local_order_cache) : s.local_order_cache[k].rid = rid}
    IN IF I = {} THEN 0 ELSE CHOOSE k \in I : TRUE

\* EntityStorage::add_local_order
add_local_order(s, rid, cmds) ==
    IF CacheIdx(s, rid) = 0
    THEN [s EXCEPT !.local_order_cache = Append(@, [rid |-> rid, queue |-> <<cmds>>])]
    ELSE [s EXCEPT !.local_order_cache[CacheIdx(s, rid)].queue = Append(@, cmds)]

\* EntityStorage::get_ordered_hash_replia_vector: the replicas with a queued vector
get_ordered_hash_replia_vector(s) ==
    LET contributing == SelectSeq(s.local_order_cache, LAMBDA e : e.queue # <<>>)
    IN [k \in 1 .. Len(contributing) |-> contributing[k].rid]

\* EntityStorage::get_local_order_cache_size
get_local_order_cache_size(s) == Len(get_ordered_hash_replia_vector(s))

\* EntityStorage::get_ordered_hash_vector: the front vector of the replica's queue
get_ordered_hash_vector(s, rid) ==
    IF CacheIdx(s, rid) = 0 \/ s.local_order_cache[CacheIdx(s, rid)].queue = <<>>
    THEN <<>>
    ELSE Head(s.local_order_cache[CacheIdx(s, rid)].queue)

\* EntityStorage::clear_front_ordered_hash
clear_front_ordered_hash(s, rid) ==
    IF CacheIdx(s, rid) = 0 \/ s.local_order_cache[CacheIdx(s, rid)].queue = <<>>
    THEN s
    ELSE [s EXCEPT !.local_order_cache[CacheIdx(s, rid)].queue = Tail(@)]

\* EntityStorage::add_ordered_hash_to_front
add_ordered_hash_to_front(s, rid, cmds) ==
    IF CacheIdx(s, rid) = 0
    THEN [s EXCEPT !.local_order_cache = Append(@, [rid |-> rid, queue |-> <<cmds>>])]
    ELSE [s EXCEPT !.local_order_cache[CacheIdx(s, rid)].queue = <<cmds>> \o @]

\* EntityStorage::is_cmd_proposed
is_cmd_proposed(s, cmd) == cmd \in s.proposed_cmds

\* EntityStorage::update_local_order_seen
update_local_order_seen(s, cmds) ==
    [s EXCEPT !.seen_propose_level = @ \cup SeqToSet(cmds),
              !.seen_execute_level = @ \cup SeqToSet(cmds)]

\* on_local_order without the return on an empty list
on_local_order_always(s, proposer, order, is_reorder) ==
    Emit(update_local_order_seen(s, order),
         [e |-> "do_send_local_order", proposer |-> proposer,
          initiator |-> s.id, ordered_hashes |-> order])

\* HotStuffCore::on_local_order
on_local_order(s, proposer, order, is_reorder) ==
    LET s1 == update_local_order_seen(s, order)
    IN IF Len(order) = 0
       THEN s1
       ELSE Emit(s1, [e |-> "do_send_local_order", proposer |-> proposer,
                      initiator |-> s.id, ordered_hashes |-> order])

\* HotStuffCore::reorder
reorder(s, proposer) == on_local_order(s, proposer, <<>>, TRUE)

\* the loop of on_receive_local_order over the contributing replicas: a front
\* vector with proposed commands is replaced by its unproposed commands
RECURSIVE FrontLoop(_, _, _)
FrontLoop(s, replicas, i) ==
    IF i > Len(replicas)
    THEN s
    ELSE
    LET replica == replicas[i]
        front == get_ordered_hash_vector(s, replica)
        unproposed_hashes == SelectSeq(front, LAMBDA h : ~is_cmd_proposed(s, h))
        s1 == IF Len(unproposed_hashes) < Len(front)
              THEN LET s2 == clear_front_ordered_hash(s, replica)
                   IN IF unproposed_hashes # <<>>
                      THEN add_ordered_hash_to_front(s2, replica, unproposed_hashes)
                      ELSE s2
              ELSE s
    IN FrontLoop(s1, replicas, i + 1)

\* on_receive_local_order returning true once the loop over the fronts ran
on_receive_local_order_signal(s, initiator, ordered_hashes) ==
    LET s1 == add_local_order(s, initiator, ordered_hashes)
    IN IF get_local_order_cache_size(s1) >= s1.nmajority
       THEN [FrontLoop(s1, get_ordered_hash_replia_vector(s1), 1) EXCEPT !.ret = TRUE]
       ELSE [s1 EXCEPT !.ret = FALSE]

\* HotStuffCore::on_receive_local_order
on_receive_local_order(s, initiator, ordered_hashes) ==
    LET s1 == add_local_order(s, initiator, ordered_hashes)
    IN IF get_local_order_cache_size(s1) >= s1.nmajority
       THEN LET s2 == FrontLoop(s1, get_ordered_hash_replia_vector(s1), 1)
            IN [s2 EXCEPT !.ret = get_local_order_cache_size(s2) >= s2.nmajority]
       ELSE [s1 EXCEPT !.ret = FALSE]

\* an extension that appends the missing commands in the order of their hashes
Extend_sorted(src, vc, cmds) ==
    src \o Ascending({c \in SeqToSet(cmds) : ~Contains(vc, c)})

\* src extended by the commands of cmds that vc does not hold
Extend(src, vc, cmds) == src \o SelectSeq(cmds, LAMBDA c : ~Contains(vc, c))

\* the first loop of fair_propose: orders[replicas[0]] after the replicas up to i
RECURSIVE MergeFirst(_, _, _)
MergeFirst(s, replicas, i) ==
    IF i = 1
    THEN get_ordered_hash_vector(s, replicas[1])
    ELSE LET first == MergeFirst(s, replicas, i - 1)
         IN Extend(first, first, get_ordered_hash_vector(s, replicas[i]))

\* the map fair_propose returns, its entries in the order of the replica vector
merge_orders(s) ==
    LET replicas == get_ordered_hash_replia_vector(s)
        ordered_hash == MergeFirst(s, replicas, Len(replicas))
    IN [j \in 1 .. Len(replicas) |->
           IF j = 1
           THEN [rid |-> replicas[1], cmds |-> ordered_hash]
           ELSE LET vc == get_ordered_hash_vector(s, replicas[j])
                IN [rid |-> replicas[j], cmds |-> Extend(vc, vc, ordered_hash)]]

\* the storage after fair_propose: the front vector of every contributor is gone
RECURSIVE ClearFronts(_, _, _)
ClearFronts(s, replicas, i) ==
    IF i > Len(replicas)
    THEN s
    ELSE ClearFronts(clear_front_ordered_hash(s, replicas[i]), replicas, i + 1)

\* HotStuffCore::fair_propose: the object after the call
fair_propose(s) == ClearFronts(s, get_ordered_hash_replia_vector(s), 1)

(***************************************************************************)
(* The single-replica specification: one HotStuffCore driven by its        *)
(* callers (the network layer and the pacemaker).  env counts what the     *)
(* callers have done so far.                                               *)
(***************************************************************************)
\* the replica's own id
SelfId == 0
\* the replicas proposals arrive from
NetProposers == {1}

\* the state a call starts from: nothing emitted, returned or thrown yet
Begin(s, op) == [s EXCEPT !.op = op, !.ret = TRUE, !.err = "", !.fx = <<>>]

\* the certificates a block from the network may carry: verified by the
\* network layer, so computed from a quorum of parts
NetQuorums == {0 .. (NReplicas - nfaulty - 1)}
NetQC(j) == [obj |-> j, parts |-> 0 .. (NReplicas - nfaulty - 1), computed |-> TRUE]
NetQCs(s) ==
    {NoQC} \cup
    {[obj |-> j, parts |-> Q, computed |-> TRUE] :
        j \in (1 .. Len(s.blocks)) \cup {UnknownHash}, Q \in NetQuorums}

\* the orders map of a regular block, and all the maps blocks are built with
NormalOrders == <<[rid |-> 0, cmds |-> <<1>>]>>
OrdersChoices ==
    { <<>>,
      <<[rid |-> 0, cmds |-> <<>>]>>,
      NormalOrders }

UBOutcomes == [crash : BOOLEAN, oob : {Garbage}]

\* the command vectors local orders carry
LocalOrders == {<<1>>}

\* the delivered blocks of the greatest height
Tips(s) ==
    LET D == {b \in 1 .. Len(s.blocks) : s.blocks[b].stored /\ s.blocks[b].delivered}
    IN {b \in D : \A c \in D : s.blocks[c].height <= s.blocks[b].height}

\* a regular block extends a tip, certifies its parent and carries NormalOrders;
\* this counts in how many of the three a block is not regular
Irregularity(s, p, qc, orders) ==
    (IF p \in Tips(s) THEN 0 ELSE 1) + (IF qc = NetQC(p) THEN 0 ELSE 1)
        + (IF orders = NormalOrders THEN 0 ELSE 1)

\* no fetched block waits for a delivery that would succeed
NonePending(s) ==
    \A b \in 1 .. Len(s.blocks) :
        s.blocks[b].stored /\ ~s.blocks[b].delivered => on_deliver_blk(s, b).err # ""

\* what the callers may do in all: lim, and what they have done
Limits(blocks, irregular, window, proposals, aux) ==
    [irregular |-> 0, aux |-> 0, proposals |-> 0, dup |-> Null,
     lim |-> [blocks |-> blocks, irregular |-> irregular, window |-> window,
              proposals |-> proposals, aux |-> aux]]

\* the replica after construction, add_replica for every replica, and on_init
Started == on_init(add_replicas(HotStuffCore(SelfId), Replicas), nfaulty)

Init ==
    /\ hs = Started
    /\ net = <<>>
    /\ env = Limits(MaxBlocks, MaxIrregular, RecvWindow, MaxProposals, MaxAux)

\* Proposal::unserialize: a block from the network enters the storage
AddBlk ==
    /\ ~hs.crashed
    /\ UNCHANGED net
    /\ Len(hs.blocks) <= env.lim.blocks
    /\ NonePending(hs)
    /\ \E p \in 1 .. Len(hs.blocks), qc \in NetQCs(hs), orders \in OrdersChoices :
          /\ env.irregular + Irregularity(hs, p, qc, orders) <= env.lim.irregular
          /\ hs' = add_blk(Begin(hs, "add_blk"), NetBlock(<<p>>, qc, orders))
          /\ env' = [env EXCEPT !.irregular = @ + Irregularity(hs, p, qc, orders)]

DeliverBlk ==
    /\ ~hs.crashed
    /\ UNCHANGED net
    /\ \E b \in 1 .. Len(hs.blocks) :
          /\ hs.blocks[b].stored
          /\ hs' = on_deliver_blk(Begin(hs, "on_deliver_blk"), b)
    /\ UNCHANGED env

ReceiveProposal ==
    /\ ~hs.crashed
    /\ UNCHANGED net
    /\ \E b \in 2 .. Len(hs.blocks), proposer \in NetProposers, ub \in UBOutcomes :
          /\ b > Len(hs.blocks) - env.lim.window
          /\ hs.blocks[b].stored
          /\ hs' = on_receive_proposal(Begin(hs, "on_receive_proposal"), proposer, b, ub)
    /\ UNCHANGED env

\* the blocks votes arrive for: the ones this replica proposed
Proposed(s) == {b \in 2 .. Len(s.blocks) : s.blocks[b].self_qc.obj = b}

\* a vote arrives from the network, for a block this replica proposed or for a
\* block never fetched.  The core tells voters apart by nothing but their
\* identity, so the voters of a block arrive in ascending order; any of them
\* may vote again.
ReceiveVote ==
    /\ ~hs.crashed
    /\ UNCHANGED net
    /\ \E voter \in Replicas, blk \in Proposed(hs) \cup {UnknownHash} :
          /\ blk # UnknownHash => voter <= Cardinality(hs.blocks[blk].voted)
          /\ blk = UnknownHash => voter = SelfId
          /\ hs' = on_receive_vote(Begin(hs, "on_receive_vote"), voter, blk)
    /\ UNCHANGED env

\* the pacemaker proposes: the merged local orders on top of a delivered block
Propose ==
    /\ ~hs.crashed
    /\ UNCHANGED net
    /\ Len(hs.blocks) <= env.lim.blocks
    /\ env.proposals < env.lim.proposals
    /\ NonePending(hs)
    /\ \E p \in 1 .. Len(hs.blocks), ub \in UBOutcomes :
          /\ hs.blocks[p].stored
          /\ env.irregular + (IF p \in Tips(hs) THEN 0 ELSE 1) <= env.lim.irregular
          /\ hs' = on_propose(fair_propose(Begin(hs, "on_propose")),
                              merge_orders(hs), <<p>>, ub)
          /\ env' = [env EXCEPT !.irregular = @ + (IF p \in Tips(hs) THEN 0 ELSE 1),
                                 !.proposals = @ + 1]

\* a local order arrives at the leader
ReceiveLocalOrder ==
    /\ ~hs.crashed
    /\ UNCHANGED net
    /\ env.aux < env.lim.aux
    /\ \E initiator \in NetProposers, ordered_hashes \in LocalOrders :
          hs' = on_receive_local_order(Begin(hs, "on_receive_local_order"),
                                       initiator, ordered_hashes)
    /\ env' = [env EXCEPT !.aux = @ + 1]

\* the replica sends its own local order, or the pacemaker asks for a reorder
LocalOrder ==
    /\ ~hs.crashed
    /\ UNCHANGED net
    /\ env.aux < env.lim.aux
    /\ \E proposer \in NetProposers, order \in LocalOrders :
          \/ hs' = on_local_order(Begin(hs, "on_local_order"), proposer, order, FALSE)
          \/ hs' = reorder(Begin(hs, "reorder"), proposer)
    /\ env' = [env EXCEPT !.aux = @ + 1]

Prune ==
    /\ ~hs.crashed
    /\ UNCHANGED net
    /\ env.aux < env.lim.aux
    /\ \E staleness \in 0 .. MaxStaleness :
          hs' = prune(Begin(hs, "prune"), staleness)
    /\ env' = [env EXCEPT !.aux = @ + 1]

SetVoteDisabled ==
    /\ ~hs.crashed
    /\ UNCHANGED net
    /\ env.aux < env.lim.aux
    /\ \E f \in BOOLEAN :
          hs' = set_vote_disabled(Begin(hs, "set_vote_disabled"), f)
    /\ env' = [env EXCEPT !.aux = @ + 1]

Next ==
    \/ AddBlk
    \/ DeliverBlk
    \/ ReceiveProposal
    \/ ReceiveVote
    \/ Propose
    \/ ReceiveLocalOrder
    \/ LocalOrder
    \/ Prune
    \/ SetVoteDisabled

Spec == Init /\ [][Next]_vars

(***************************************************************************)
(* A replica that only follows: blocks and proposals arrive from the       *)
(* network, and the blocks may be irregular.                               *)
(***************************************************************************)
FollowerInit ==
    /\ hs = Started
    /\ net = <<>>
    /\ env = Limits(FollowerBlocks, FollowerIrregular, RecvWindow, 0, 0)

FollowerNext ==
    \/ AddBlk
    \/ DeliverBlk
    \/ ReceiveProposal

SpecFollower == FollowerInit /\ [][FollowerNext]_vars

\* a follower of a longer chain of regular blocks
LongInit ==
    /\ hs = Started
    /\ net = <<>>
    /\ env = Limits(LongBlocks, MaxIrregular, LongWindow, 0, 0)

SpecLong == LongInit /\ [][FollowerNext]_vars

(***************************************************************************)
(* Properties.                                                             *)
(***************************************************************************)
\* what prune and the walks read of a block, and what on_deliver_blk fills in
Resolved(s, b) ==
    [parents |-> s.blocks[b].parents, height |-> s.blocks[b].height,
     qc_ref |-> s.blocks[b].qc_ref, delivered |-> s.blocks[b].delivered]

\* the heights of hqc.first, b_lock and b_exec, and vheight
Heights(s) ==
    [hqc |-> s.blocks[s.hqc.first].height, b_lock |-> s.blocks[s.b_lock].height,
     b_exec |-> s.blocks[s.b_exec].height, vheight |-> s.vheight]

\* C9: a call of on_deliver_blk on a block that is already delivered returns
\* false and leaves the block's parents, height, qc_ref and delivered flag and
\* the core's tails, hqc, b_lock, b_exec and vheight as they were.
DeliveryIdempotence ==
    [][\A b \in 1 .. Len(hs.blocks) :
          (/\ hs.blocks[b].delivered
           /\ hs' = on_deliver_blk(Begin(hs, "on_deliver_blk"), b))
          => /\ hs'.ret = FALSE
             /\ Resolved(hs', b) = Resolved(hs, b)
             /\ hs'.tails = hs.tails
             /\ hs'.hqc = hs.hqc
             /\ hs'.b_lock = hs.b_lock
             /\ hs'.b_exec = hs.b_exec
             /\ hs'.vheight = hs.vheight]_vars

\* on_deliver_blk has just refused a block that has a child, so that a second
\* delivery would have put it back into tails
DeliveredTwice ==
    /\ hs.op = "on_deliver_blk"
    /\ hs.ret = FALSE
    /\ \E b \in 2 .. Len(hs.blocks) : hs.blocks[b].delivered /\ b \notin hs.tails

\* C2: no transition of the replica lowers the height of hqc.first, of b_lock
\* or of b_exec, or vheight.
Monotonicity ==
    [][/\ Heights(hs').hqc >= Heights(hs).hqc
       /\ Heights(hs').b_lock >= Heights(hs).b_lock
       /\ Heights(hs').b_exec >= Heights(hs).b_exec
       /\ Heights(hs').vheight >= Heights(hs).vheight]_vars

\* all four have risen, and the pacemaker's proposal was among the blocks
AllRaised ==
    /\ Heights(hs).hqc > 1
    /\ Heights(hs).b_lock > 1
    /\ Heights(hs).b_exec > 1
    /\ Heights(hs).vheight > 1
    /\ Proposed(hs) # {}

\* the outcome of the undefined behaviour in which no stale value is read
NoStale == [crash |-> TRUE, oob |-> Garbage]

\* the blocks the last call voted for
VotedNow(s) == {s.fx[i].blk : i \in {k \in 1 .. Len(s.fx) : s.fx[k].e = "do_vote"}}

\* the blocks the last call passed to the hook named e
HookBlocks(s, e) == {s.fx[i].blk : i \in {k \in 1 .. Len(s.fx) : s.fx[k].e = e}}

\* bnew passes the liveness condition of the vote decision
LivenessCondition(s, bnew) ==
    /\ s.blocks[bnew].qc_ref # Null
    /\ s.blocks[s.blocks[bnew].qc_ref].height > s.blocks[s.b_lock].height

\* bnew passes the safety condition of the vote decision
SafetyCondition(s, bnew) ==
    WalkEnd(s, bnew, s.blocks[s.b_lock].height, NoStale) = s.b_lock

\* C3: whenever a call votes for a block b, b was higher than vheight before
\* the call, and b.qc_ref is higher than b_lock or the walk along parents[0]
\* from b down to the height of b_lock ends on b_lock.
VoteRule ==
    [][\A b \in VotedNow(hs') :
          /\ hs'.blocks[b].height > hs.vheight
          /\ LivenessCondition(hs', b) \/ SafetyCondition(hs', b)]_vars

\* a vote for a block that only the safety condition lets through
VotedOnLockedBranch ==
    /\ hs.op = "on_receive_proposal"
    /\ hs.b_lock # b0
    /\ \E b \in VotedNow(hs) : ~LivenessCondition(hs, b) /\ SafetyCondition(hs, b)

\* C4: the replica never votes twice for a block, and never for two blocks of
\* the same height.
AtMostOneVote ==
    \A i, j \in 1 .. Len(hs.votelog) :
        i < j => /\ hs.votelog[i] # hs.votelog[j]
                 /\ hs.blocks[hs.votelog[i]].height # hs.blocks[hs.votelog[j]].height

\* a proposal the replica had voted for was received again, without a vote
ReceivedAgain ==
    /\ hs.op = "on_receive_proposal"
    /\ Len(hs.votelog) >= 2
    /\ VotedNow(hs) = {}
    /\ HookBlocks(hs, "resolve") \cap SeqToSet(hs.votelog) # {}

\* the blocks on the walk along parents[0] from b to the genesis block
RECURSIVE Branch(_, _)
Branch(s, b) ==
    IF s.blocks[b].parents = <<>>
    THEN {b}
    ELSE {b} \cup Branch(s, s.blocks[b].parents[1])

\* C5: every block on the walk along parents[0] from a committed block down to
\* b0 is committed.
AncestorClosure ==
    \A b \in 1 .. Len(hs.blocks) :
        hs.blocks[b].decision = 1 =>
            \A a \in Branch(hs, b) : hs.blocks[a].decision = 1

\* one update committed two blocks
CommittedTwo ==
    /\ hs.op = "on_receive_proposal"
    /\ Cardinality(HookBlocks(hs, "do_consensus")) >= 2
    /\ hs.b_exec \in HookBlocks(hs, "do_consensus")

Parent(s, b) == IF s.blocks[b].parents = <<>> THEN Null ELSE s.blocks[b].parents[1]

\* c is delivered, has p as parents[0] and carries a certificate for p
Link(s, p, c) ==
    /\ p # Null
    /\ s.blocks[c].delivered
    /\ Parent(s, c) = p
    /\ s.blocks[c].qc_ref = p

\* bk <- . <- . <- n is a chain of such links, and bk is the first undecided
\* block above b_exec
Chain4(s, bk, n) ==
    LET b2 == Parent(s, n)
        b1 == IF b2 = Null THEN Null ELSE Parent(s, b2)
    IN /\ Link(s, b2, n)
       /\ Link(s, b1, b2)
       /\ Link(s, bk, b1)
       /\ s.blocks[bk].delivered
       /\ s.blocks[bk].decision = 0
       /\ Parent(s, bk) = s.b_exec

\* the same with n the third block of the chain
Chain3(s, bk, n) ==
    LET b1 == Parent(s, n)
    IN /\ Link(s, b1, n)
       /\ Link(s, bk, b1)
       /\ s.blocks[bk].delivered
       /\ s.blocks[bk].decision = 0
       /\ Parent(s, bk) = s.b_exec

\* this step is on_receive_proposal for the block n
Processed(n) ==
    \E proposer \in NetProposers, ub \in UBOutcomes :
        hs' = on_receive_proposal(Begin(hs, "on_receive_proposal"), proposer, n, ub)

\* the commit loop breaks at a block with these orders
Breaks(orders) == orders # <<>> /\ OrderCmds(orders) = {}

\* processing the third block of such a chain does not commit bk
ThirdDoesNotCommit ==
    \A bk, n \in 2 .. Len(hs.blocks) :
        Chain3(hs, bk, n) /\ Processed(n) => hs'.blocks[bk].decision = 0

FinalEntries == 2
FinalLen == 2

\* the command vectors of at most n commands
CmdSeqs(n) == UNION {[1 .. k -> Cmds] : k \in 0 .. n}

\* the maps of at most FinalEntries entries, the k-th from replica k - 1
OrdersMaps ==
    UNION {{[i \in 1 .. k |-> [rid |-> i - 1, cmds |-> f[i]]] :
               f \in [1 .. k -> CmdSeqs(FinalLen)]} : k \in 0 .. FinalEntries}

\* the orders in which an unordered_map may iterate over the entries of orders
IterationOrders(orders) ==
    {[i \in 1 .. Len(orders) |-> orders[pi[i]]] : pi \in Permutations(1 .. Len(orders))}

\* what a read past the end of a vector may yield: anything
FinalUB == [crash : BOOLEAN, oob : Cmds \cup {Garbage}]

\* one run of fair_finalize: the process dies, or the vector it returns
RunFinalize(orders, ub) ==
    IF fair_finalize_ub(orders) /\ ub.crash
    THEN [crashed |-> TRUE, order |-> <<>>]
    ELSE [crashed |-> FALSE, order |-> fair_finalize(orders, ub.oob)]

FinalInit ==
    /\ hs = Started
    /\ net = <<>>
    /\ env \in {[orders |-> o, runs |-> <<>>] : o \in OrdersMaps}

\* two replicas finalize a block with the drawn map
Finalize ==
    /\ env.runs = <<>>
    /\ \E o1, o2 \in IterationOrders(env.orders), ub1, ub2 \in FinalUB :
          env' = [env EXCEPT !.runs = <<RunFinalize(o1, ub1), RunFinalize(o2, ub2)>>]
    /\ UNCHANGED <<hs, net>>

FinalNext == Finalize

SpecFinal == FinalInit /\ [][FinalNext]_vars

\* C7: two runs of fair_finalize on the same orders map that both return,
\* return the same command sequence.
OrderDeterminism ==
    (env.runs # <<>> /\ ~env.runs[1].crashed /\ ~env.runs[2].crashed)
        => env.runs[1].order = env.runs[2].order

(***************************************************************************)
(* The leader's merge on its own: local orders arrive, and the pacemaker   *)
(* calls fair_propose.  env.merged is the map the last call returned and  *)
(* env.fronts the front vectors it was made from.                          *)
(***************************************************************************)
\* local orders that arrive, replicas they arrive from, commands of an order
MergeOrders == 3
MergeReplicas == 2
MergeLen == 2

MergeInit ==
    /\ hs = Started
    /\ net = <<>>
    /\ env = [arrived |-> 0, merged |-> <<>>, fronts |-> <<>>]

\* a local order arrives at the leader
OrderArrives ==
    /\ env.arrived < MergeOrders
    /\ \E initiator \in 0 .. (MergeReplicas - 1), ordered_hashes \in CmdSeqs(MergeLen) :
          hs' = on_receive_local_order(Begin(hs, "on_receive_local_order"),
                                       initiator, ordered_hashes)
    /\ env' = [env EXCEPT !.arrived = @ + 1]
    /\ UNCHANGED net

\* the pacemaker asks for the merged orders
FairPropose ==
    /\ hs' = fair_propose(Begin(hs, "fair_propose"))
    /\ LET replicas == get_ordered_hash_replia_vector(hs)
       IN env' = [env EXCEPT
                     !.merged = merge_orders(hs),
                     !.fronts = [j \in 1 .. Len(replicas) |->
                                    get_ordered_hash_vector(hs, replicas[j])]]
    /\ UNCHANGED net

MergeNext ==
    \/ OrderArrives
    \/ FairPropose

SpecMerge == MergeInit /\ [][MergeNext]_vars

\* how often c occurs in the vector v
Count(v, c) == Cardinality({i \in 1 .. Len(v) : v[i] = c})

\* C6: any two sequences of the map fair_propose returned hold the same
\* commands the same number of times.
MergeUnion ==
    \A i, j \in 1 .. Len(env.merged) :
        \A c \in Cmds : Count(env.merged[i].cmds, c) = Count(env.merged[j].cmds, c)

(***************************************************************************)
(* Several replicas.  net.cores holds the honest replicas, each a          *)
(* HotStuffCore; the faulty ones are the network: they propose any block   *)
(* that extends the newest one or forks off an older one, they vote for    *)
(* everything, and a block may carry a certificate for its parent once the *)
(* honest voters of the parent and the faulty replicas make a quorum.      *)
(* Every block reaches every storage; an honest replica delivers a block   *)
(* and receives its proposal in the round the block is proposed, or never. *)
(***************************************************************************)
\* honest replicas, the most faulty ones, blocks proposed, forks
NetHonest == 2
NetFaulty == 1
NetBlocks == 8
NetForks == 1

Honest == 0 .. (NetHonest - 1)

\* the configurations: the honest replicas and f faulty ones, nfaulty = f
NetConfigs == {[n |-> NetHonest + f, f |-> f] : f \in 0 .. NetFaulty}

\* the replica r of such a configuration after construction and on_init
StartedIn(cfg, r) == on_init(add_replicas(HotStuffCore(r), 0 .. (cfg.n - 1)), cfg.f)

\* the replicas whose vote for p the network holds
VotersOf(p) ==
    {r \in Honest : Contains(net.cores[r].votelog, p)} \cup (NetHonest .. (net.cfg.n - 1))

\* the certificate a block with parent p carries
CertificateFor(p) ==
    IF p = b0
    THEN compute(create_quorum_cert(b0))
    ELSE [obj |-> p, parts |-> VotersOf(p), computed |-> TRUE]

\* the network holds a quorum of votes for p
Certified(p) == p = b0 \/ Cardinality(VotersOf(p)) >= net.cores[0].nmajority

\* the replica fetches and delivers blk, its undelivered ancestors first
RECURSIVE DeliverBranch(_, _)
DeliverBranch(s, blk) ==
    IF s.blocks[blk].delivered
    THEN s
    ELSE on_deliver_blk(DeliverBranch(s, s.blocks[blk].parent_hashes[1]), blk)

\* the replica takes in the proposal of blk from the replica after it
TakeProposal(s, blk) ==
    on_receive_proposal(DeliverBranch(Begin(s, "on_receive_proposal"), blk),
                        (s.id + 1) % s.nreplicas, blk,
                        [crash |-> TRUE, oob |-> Garbage])

NetInit ==
    /\ hs = Started
    /\ env = <<>>
    /\ net \in {[cfg |-> cfg, forks |-> 0,
                 cores |-> [r \in Honest |-> StartedIn(cfg, r)]] : cfg \in NetConfigs}

\* a block is proposed on top of p, and the replicas of S, one at least, take
\* it in
Round ==
    /\ Len(net.cores[0].blocks) <= NetBlocks
    /\ \E p \in 1 .. Len(net.cores[0].blocks), S \in (SUBSET Honest) \ {{}} :
          LET forks == IF p = Len(net.cores[0].blocks) THEN 0 ELSE 1
              bnew == Len(net.cores[0].blocks) + 1
              blk == NetBlock(<<p>>, CertificateFor(p), NormalOrders)
          IN /\ net.forks + forks <= NetForks
             /\ Certified(p)
             /\ net' = [net EXCEPT
                   !.forks = @ + forks,
                   !.cores = [r \in Honest |->
                                 IF r \in S
                                 THEN TakeProposal(add_blk(net.cores[r], blk), bnew)
                                 ELSE add_blk(net.cores[r], blk)]]
    /\ UNCHANGED <<hs, env>>

NetNext == Round

SpecNet == NetInit /\ [][NetNext]_vars

\* no two replicas have committed different blocks of one height
Agreement ==
    \A i, j \in Honest :
        \A a \in 1 .. Len(net.cores[i].blocks), b \in 1 .. Len(net.cores[j].blocks) :
            (/\ net.cores[i].blocks[a].decision = 1
             /\ net.cores[j].blocks[b].decision = 1
             /\ net.cores[i].blocks[a].height = net.cores[j].blocks[b].height)
            => a = b

EventsOf(s, e, b) == {i \in 1 .. Len(s.fx) : s.fx[i].e = e /\ s.fx[i].blk = b}

\* the call from st to sn committed block b
NewlyCommitted(st, sn, b) ==
    /\ b <= Len(st.blocks)
    /\ st.blocks[b].decision = 0
    /\ sn.blocks[b].decision = 1

\* C11: in every call, each block the call commits gets exactly one do_decide
\* per command of its command set, with decision 1 and the block's height, and
\* one do_consensus; a block the call does not commit gets none, and a
\* committed block stays committed.
ExactlyOnceFinality ==
    [][\A b \in 1 .. Len(hs'.blocks) :
          LET decides == EventsOf(hs', "do_decide", b)
              cmds == OrderCmds(hs'.blocks[b].orders)
          IN IF NewlyCommitted(hs, hs', b)
             THEN /\ \A c \in cmds :
                        Cardinality({i \in decides : hs'.fx[i].cmd_hash = c}) = 1
                  /\ \A i \in decides :
                        /\ hs'.fx[i].cmd_hash \in cmds
                        /\ hs'.fx[i].decision = 1
                        /\ hs'.fx[i].cmd_height = hs'.blocks[b].height
                  /\ Cardinality(EventsOf(hs', "do_consensus", b)) = 1
             ELSE /\ decides = {}
                  /\ EventsOf(hs', "do_consensus", b) = {}
                  /\ (b <= Len(hs.blocks) /\ hs.blocks[b].decision = 1
                         => hs'.blocks[b].decision = 1)]_vars

\* the last call committed a block with a command and decided it
DecidedCommand ==
    \E b \in 1 .. Len(hs.blocks) :
        /\ hs.blocks[b].decision = 1
        /\ OrderCmds(hs.blocks[b].orders) # {}
        /\ EventsOf(hs, "do_decide", b) # {}

(***************************************************************************)
(* The votes for a block: blocks arrive or are proposed, votes for any of  *)
(* them arrive from any replica in any order, and the pacemaker asks for   *)
(* their quorums.                                                          *)
(***************************************************************************)
VoteBlocks == 2
VoteProposals == 1
VoteWaits == 2

VoteInit ==
    /\ hs = Started
    /\ net = <<>>
    /\ env = Limits(VoteBlocks, 0, 0, VoteProposals, VoteWaits)

\* a vote of any replica for any fetched block arrives; env.dup is the block
\* when the replica had voted for it before
VoteArrives ==
    /\ ~hs.crashed
    /\ \E voter \in Replicas, blk \in 2 .. Len(hs.blocks) :
          /\ hs' = on_receive_vote(Begin(hs, "on_receive_vote"), voter, blk)
          /\ env' = [env EXCEPT !.dup = IF voter \in hs.blocks[blk].voted
                                         THEN blk ELSE Null]
    /\ UNCHANGED net

\* the pacemaker asks for the quorum of a block
AsyncQcFinish ==
    /\ ~hs.crashed
    /\ env.aux < env.lim.aux
    /\ \E blk \in 1 .. Len(hs.blocks) :
          hs' = async_qc_finish(Begin(hs, "async_qc_finish"), blk)
    /\ env' = [env EXCEPT !.aux = @ + 1]
    /\ UNCHANGED net

VoteNext ==
    \/ AddBlk
    \/ DeliverBlk
    \/ Propose
    \/ VoteArrives
    \/ AsyncQcFinish

SpecVote == VoteInit /\ [][VoteNext]_vars

\* the call from st to sn brought the voters of b to exactly nmajority
ReachesQuorum(st, sn, b) ==
    /\ b <= Len(st.blocks)
    /\ Cardinality(st.blocks[b].voted) + 1 = st.nmajority
    /\ Cardinality(sn.blocks[b].voted) = st.nmajority

\* C12: the on_receive_vote call that brings the voters of a delivered block b
\* other than genesis to nmajority computes b's certificate from those voters,
\* once, applies update_hqc(b, self_qc) and resolves the waiter of b if there
\* is one; no other call computes the certificate of b or changes it once it
\* is computed.
QuorumAssembly ==
    [][\A b \in 2 .. Len(hs'.blocks) :
          LET computes == EventsOf(hs', "compute", b)
              qc == hs'.blocks[b].self_qc
          IN IF ReachesQuorum(hs, hs', b)
             THEN /\ hs.blocks[b].delivered
                  /\ Cardinality(computes) = 1
                  /\ qc = [obj |-> b, parts |-> hs'.blocks[b].voted, computed |-> TRUE]
                  /\ hs'.hqc = IF hs.blocks[b].height > hs.blocks[hs.hqc.first].height
                               THEN [first |-> b, second |-> qc]
                               ELSE hs.hqc
                  /\ b \notin hs'.qc_waiting
                  /\ b \in hs.qc_waiting
                        => \E i \in EventsOf(hs', "resolve", b) :
                               hs'.fx[i].w = "qc_waiting"
             ELSE /\ computes = {}
                  /\ (b <= Len(hs.blocks) /\ hs.blocks[b].self_qc.computed
                         => qc = hs.blocks[b].self_qc)]_vars

\* the last call computed the certificate of a block and resolved its waiter
WaiterResolved ==
    \E b \in 2 .. Len(hs.blocks) :
        /\ EventsOf(hs, "compute", b) # {}
        /\ \E i \in EventsOf(hs, "resolve", b) : hs.fx[i].w = "qc_waiting"
        /\ hs.hqc.first = b

(***************************************************************************)
(* A follower on a forked tree: each block that arrives has the genesis    *)
(* block or one of the two newest blocks as its parent and carries the     *)
(* certificate of one of the two newest blocks; it is delivered as it      *)
(* arrives, and the newest block may arrive as a proposal.                 *)
(***************************************************************************)
ForkBlocks == 5

ForkInit ==
    /\ hs = Started
    /\ net = <<>>
    /\ env = Limits(ForkBlocks, 0, 1, 0, 0)

\* the two newest blocks
Newest(s) == {b \in 1 .. Len(s.blocks) : b + 2 > Len(s.blocks)}

\* a block arrives from the network and is delivered
Arrive ==
    /\ ~hs.crashed
    /\ Len(hs.blocks) <= env.lim.blocks
    /\ \E p \in Newest(hs) \cup {b0}, q \in Newest(hs) :
          hs' = on_deliver_blk(
                    add_blk(Begin(hs, "on_deliver_blk"),
                            NetBlock(<<p>>, NetQC(q), NormalOrders)),
                    Len(hs.blocks) + 1)
    /\ UNCHANGED <<env, net>>

ForkNext ==
    \/ Arrive
    \/ ReceiveProposal

SpecFork == ForkInit /\ [][ForkNext]_vars

\* in state s, b is higher than vh, its qc_ref is not higher than b_lock and
\* the walk along parents[0] from b down to the height of b_lock ends on a
\* block other than b_lock
ConflictingFork(s, b, vh) ==
    /\ s.blocks[b].delivered
    /\ s.blocks[b].height > vh
    /\ ~LivenessCondition(s, b)
    /\ WalkEnd(s, b, s.blocks[s.b_lock].height, NoStale) \notin {s.b_lock, Null}

\* the call from hs to hs' voted for b or raised vheight
VotedOrRaised(b) == b \in VotedNow(hs') \/ hs'.vheight # hs.vheight

\* C13, as claimed: a proposal of a block that conflicts with b_lock as the
\* call finds it gets no vote and leaves vheight unchanged.
ForkRefusedClaimed ==
    [][\A b \in 2 .. Len(hs.blocks) :
          Processed(b) /\ ConflictingFork(hs, b, hs.vheight) => ~VotedOrRaised(b)]_vars

\* C13: a proposal of a block that conflicts with b_lock as the update of the
\* call leaves it gets no vote and leaves vheight unchanged.
ForkRefused ==
    [][\A b \in 2 .. Len(hs.blocks) :
          Processed(b) /\ ConflictingFork(hs', b, hs.vheight) => ~VotedOrRaised(b)]_vars

\* a proposal that conflicts with a lock above genesis was received and refused
RefusedFork ==
    \E b \in 2 .. Len(hs.blocks) :
        /\ hs.op = "on_receive_proposal"
        /\ hs.err = ""
        /\ HookBlocks(hs, "resolve") = {b}
        /\ hs.b_lock # b0
        /\ ConflictingFork(hs, b, hs.vheight)
        /\ VotedNow(hs) = {}

(***************************************************************************)
(* Fetching and delivering: blocks with one or two parents and any         *)
(* certificate are fetched in any order, and the fetched blocks are        *)
(* delivered in any order.                                                 *)
(***************************************************************************)
DeliverBlocks == 3
DeliverParents == 2

DeliverInit ==
    /\ hs = Started
    /\ net = <<>>
    /\ env = Limits(DeliverBlocks, 0, 0, 0, 0)

\* the parent_hashes a fetched block may carry
ParentHashes(s) == UNION {[1 .. k -> 1 .. Len(s.blocks)] : k \in 1 .. DeliverParents}

\* the storage takes in a block from the network
Fetch ==
    /\ ~hs.crashed
    /\ Len(hs.blocks) <= env.lim.blocks
    /\ \E hashes \in ParentHashes(hs), qc \in NetQCs(hs) :
          hs' = add_blk(Begin(hs, "add_blk"), NetBlock(hashes, qc, NormalOrders))
    /\ UNCHANGED <<env, net>>

DeliverNext ==
    \/ Fetch
    \/ DeliverBlk

SpecDeliver == DeliverInit /\ [][DeliverNext]_vars

\* every block in the parents of b is delivered
ParentsDelivered(s, b) ==
    \A i \in 1 .. Len(s.blocks[b].parents) :
        /\ find_blk(s, s.blocks[b].parents[i]) # Null
        /\ s.blocks[s.blocks[b].parents[i]].delivered

\* C14, as claimed: every delivered block has all of its parents delivered
\* and, if it carries a certificate, the block the certificate refers to
\* delivered.
DeliveredClosureClaimed ==
    \A b \in 1 .. Len(hs.blocks) :
        hs.blocks[b].delivered
        => /\ ParentsDelivered(hs, b)
           /\ hs.blocks[b].qc.obj # Null
                 => /\ hs.blocks[b].qc_ref = hs.blocks[b].qc.obj
                    /\ find_blk(hs, hs.blocks[b].qc_ref) # Null
                    /\ hs.blocks[hs.blocks[b].qc_ref].delivered

\* C14: every delivered block has all of its parents delivered and, if it
\* carries a certificate, the block the certificate refers to as its qc_ref,
\* fetched, unless prune has emptied its parents and detached its qc_ref.
DeliveredClosure ==
    \A b \in 1 .. Len(hs.blocks) :
        hs.blocks[b].delivered
        => /\ ParentsDelivered(hs, b)
           /\ hs.blocks[b].qc_ref # Null
                 => /\ hs.blocks[b].qc_ref = hs.blocks[b].qc.obj
                    /\ find_blk(hs, hs.blocks[b].qc_ref) # Null
           /\ hs.blocks[b].qc.obj # Null /\ hs.blocks[b].qc_ref = Null
                 => hs.blocks[b].parents = <<>>

\* a block with two parents and a certificate was delivered
DeliveredWithQC ==
    \E b \in 2 .. Len(hs.blocks) :
        /\ hs.blocks[b].delivered
        /\ Len(hs.blocks[b].parents) = 2
        /\ hs.blocks[b].qc_ref \in 2 .. Len(hs.blocks)

\* C15: every delivered block other than genesis has the height of its first
\* parent plus one, and a height greater than that of each of its parents.
HeightOrder ==
    \A b \in 2 .. Len(hs.blocks) :
        hs.blocks[b].delivered
        => /\ hs.blocks[b].parents # <<>>
           /\ hs.blocks[b].height = hs.blocks[hs.blocks[b].parents[1]].height + 1
           /\ \A i \in 1 .. Len(hs.blocks[b].parents) :
                 hs.blocks[b].height > hs.blocks[hs.blocks[b].parents[i]].height

(***************************************************************************)
(* Prune.                                                                  *)
(***************************************************************************)
\* the blocks that b refers to: its parents and its qc_ref
RefersTo(s, b) == (SeqToSet(s.blocks[b].parents) \cup {s.blocks[b].qc_ref}) \ {Null}

\* the blocks reachable from those of S in at most n steps
RECURSIVE ReachableFrom(_, _, _)
ReachableFrom(s, S, n) ==
    IF n = 0
    THEN S
    ELSE ReachableFrom(s, S \cup UNION {RefersTo(s, b) : b \in S}, n - 1)

\* b_exec, b_lock, hqc.first, the tails and every block reachable from them
Protected(s) ==
    ReachableFrom(s, {s.b_exec, s.b_lock, s.hqc.first} \cup s.tails, Len(s.blocks))

\* the step is a call of prune
Pruned == \E staleness \in 0 .. MaxStaleness : hs' = prune(Begin(hs, "prune"), staleness)

\* C16: a call of prune leaves the parents and the qc_ref of every protected
\* block as they are and releases none of them.
PruneProtection ==
    [][Pruned =>
          \A b \in Protected(hs) :
              /\ hs'.blocks[b].parents = hs.blocks[b].parents
              /\ hs'.blocks[b].qc_ref = hs.blocks[b].qc_ref
              /\ hs'.blocks[b].stored = hs.blocks[b].stored]_vars

(***************************************************************************)
(* fair_finalize on the maps a merge is meant to produce: every replica's  *)
(* sequence is a permutation of one command set.                           *)
(***************************************************************************)
WeighCmds == 4
WeighEntries == 2

\* the sequences that hold each of the commands 1 .. n once
PermutationSeqs(n) == {s \in [1 .. n -> 1 .. n] : \A i, j \in 1 .. n : s[i] = s[j] => i = j}

\* the maps of at most WeighEntries entries over one command set
WeighMaps ==
    UNION {{[i \in 1 .. k |-> [rid |-> i - 1, cmds |-> f[i]]] :
               f \in [1 .. k -> PermutationSeqs(n)]} :
           k \in 1 .. WeighEntries, n \in 1 .. WeighCmds}

WeighInit ==
    /\ hs = Started
    /\ net = <<>>
    /\ env \in {[orders |-> o, order |-> <<>>, done |-> FALSE] : o \in WeighMaps}

\* a replica finalizes a block with the drawn map
Weigh ==
    /\ ~env.done
    /\ \E o \in IterationOrders(env.orders) :
          env' = [env EXCEPT !.order = fair_finalize(o, Garbage), !.done = TRUE]
    /\ UNCHANGED <<hs, net>>

WeighNext == Weigh

SpecWeigh == WeighInit /\ [][WeighNext]_vars

\* the position of command c in the sequence order
PositionIn(order, c) == CHOOSE i \in 1 .. Len(order) : order[i] = c

\* the number of entries of orders that place a before b
PlacedBefore(orders, a, b) ==
    Cardinality({k \in 1 .. Len(orders) :
                    PositionIn(orders[k].cmds, a) < PositionIn(orders[k].cmds, b)})

\* C17: for commands a and b of a finalized map with weight(a) < weight(b),
\* the output of fair_finalize has a before b.
WeightOrder ==
    env.done =>
        \A a, b \in OrderCmds(env.orders) :
            cmd_weight(env.orders, a) < cmd_weight(env.orders, b)
            => PositionIn(env.order, a) < PositionIn(env.order, b)

\* C18: for commands a and b of a finalized map that as many entries place a
\* before b as b before a, the output of fair_finalize has the one with the
\* smaller hash first.
HashTieBreak ==
    env.done =>
        \A a, b \in OrderCmds(env.orders) :
            a < b /\ PlacedBefore(env.orders, a, b) = PlacedBefore(env.orders, b, a)
            => PositionIn(env.order, a) < PositionIn(env.order, b)

(***************************************************************************)
(* The leader's cache while commands get proposed: local orders arrive,    *)
(* the caller of the core marks commands as proposed, and the pacemaker    *)
(* calls fair_propose.  env.stage is "pruned" once an arrival ran the loop *)
(* over the fronts and "proposed" once fair_propose followed it;           *)
(* env.proposed and env.fronts are proposed_cmds and the front vectors at  *)
(* the time of the loop.                                                   *)
(***************************************************************************)
\* local orders that arrive, replicas they arrive from, commands of an
\* order, commands that get marked as proposed
FrontOrders == 3
FrontReplicas == 3
FrontLen == 2
FrontIssued == 1

\* EntityStorage::add_to_proposed_cmds_cache
add_to_proposed_cmds_cache(s, cmd) == [s EXCEPT !.proposed_cmds = @ \cup {cmd}]

\* the leader is replica 0 of FrontReplicas replicas, one of them faulty
FrontInit ==
    /\ hs = StartedIn([n |-> FrontReplicas, f |-> 1], 0)
    /\ net = <<>>
    /\ env = [arrived |-> 0, issued |-> 0, merged |-> <<>>, stage |-> "idle",
              proposed |-> {}, fronts |-> <<>>]

\* the caller has issued a proposal that holds cmd
Issue ==
    /\ env.issued < FrontIssued
    /\ \E cmd \in Cmds :
          hs' = add_to_proposed_cmds_cache(Begin(hs, "add_to_proposed_cmds_cache"), cmd)
    /\ env' = [env EXCEPT !.issued = @ + 1]
    /\ UNCHANGED net

\* a local order arrives at the leader
FrontArrives ==
    /\ env.arrived < FrontOrders
    /\ \E initiator \in 0 .. (FrontReplicas - 1), ordered_hashes \in CmdSeqs(FrontLen) :
          LET s1 == add_local_order(hs, initiator, ordered_hashes)
              pruned == get_local_order_cache_size(s1) >= s1.nmajority
          IN /\ hs' = on_receive_local_order(Begin(hs, "on_receive_local_order"),
                                             initiator, ordered_hashes)
             /\ env' = [env EXCEPT
                           !.arrived = @ + 1,
                           !.stage = IF pruned THEN "pruned" ELSE "idle",
                           !.proposed = hs.proposed_cmds,
                           !.fronts = [r \in 0 .. (FrontReplicas - 1) |->
                                          get_ordered_hash_vector(s1, r)]]
    /\ UNCHANGED net

\* the pacemaker asks for the merged orders
FrontPropose ==
    /\ hs' = fair_propose(Begin(hs, "fair_propose"))
    /\ env' = [env EXCEPT !.merged = merge_orders(hs),
                          !.stage = IF env.stage = "pruned" THEN "proposed" ELSE "idle"]
    /\ UNCHANGED net

FrontNext ==
    \/ Issue
    \/ FrontArrives
    \/ FrontPropose

SpecFront == FrontInit /\ [][FrontNext]_vars

\* the commands of replica r's front vector that were not proposed when the
\* loop over the fronts ran
Survivors(r) == SelectSeq(env.fronts[r], LAMBDA c : c \notin env.proposed)

\* no sequence of the returned map holds a command proposed at the time of
\* the loop
NoneProposed ==
    \A k \in 1 .. Len(env.merged) :
        SeqToSet(env.merged[k].cmds) \cap env.proposed = {}

\* the surviving commands of every replica are in its sequence in their order
SurvivorsInOrder ==
    \A k \in 1 .. Len(env.merged) :
        LET kept == Survivors(env.merged[k].rid)
        IN SelectSeq(env.merged[k].cmds, LAMBDA c : c \in SeqToSet(kept)) = kept

\* C19: the map of the fair_propose that follows an on_receive_local_order
\* which reached n_majority contributors and ran the loop over the fronts
\* holds no command that was proposed at that time, and each replica's
\* surviving commands keep their relative order.
NoReproposal ==
    env.stage = "proposed" => NoneProposed /\ SurvivorsInOrder

(***************************************************************************)
(* The replica's own local orders: the command layer hands an order to     *)
(* on_local_order, and the pacemaker calls reorder.  env.given is the list *)
(* the last call of on_local_order was given.                              *)
(***************************************************************************)
\* calls made, commands of an order
SendCalls == 3
SendLen == 3

SendInit ==
    /\ hs = Started
    /\ net = <<>>
    /\ env = [calls |-> 0, given |-> <<>>]

\* the command layer hands the replica's order over
OrderOwn ==
    /\ env.calls < SendCalls
    /\ \E proposer \in Replicas, order \in CmdSeqs(SendLen), is_reorder \in BOOLEAN :
          /\ hs' = on_local_order(Begin(hs, "on_local_order"), proposer, order, is_reorder)
          /\ env' = [calls |-> env.calls + 1, given |-> order]
    /\ UNCHANGED net

\* the pacemaker asks for a reorder
Reorder ==
    /\ env.calls < SendCalls
    /\ \E proposer \in Replicas :
          hs' = reorder(Begin(hs, "reorder"), proposer)
    /\ env' = [calls |-> env.calls + 1, given |-> <<>>]
    /\ UNCHANGED net

SendNext ==
    \/ OrderOwn
    \/ Reorder

SpecSend == SendInit /\ [][SendNext]_vars

\* the local orders the last call handed to do_send_local_order
Sent == SelectSeq(hs.fx, LAMBDA x : x.e = "do_send_local_order")

\* C20: a call of on_local_order with an empty list, and so every call of
\* reorder, hands nothing to do_send_local_order; a call with a non-empty
\* list hands over one local order, whose initiator is the replica itself
\* and whose ordered_hashes is the list as given.
EmptySendsNothing ==
    hs.op \in {"on_local_order", "reorder"} =>
        IF env.given = <<>>
        THEN Sent = <<>>
        ELSE /\ Len(Sent) = 1
             /\ Sent[1].initiator = hs.id
             /\ Sent[1].ordered_hashes = env.given

\* a list of two commands, the larger hash first, has been sent
SentAsGiven ==
    /\ hs.op = "on_local_order"
    /\ Len(env.given) = 2
    /\ env.given[1] > env.given[2]
    /\ Len(Sent) = 1

(***************************************************************************)
(* Abstaining, the majority signal and the tails.                          *)
(***************************************************************************)
\* C21: a call of on_receive_proposal, from the network or from on_propose,
\* made while vote_disabled is set calls do_vote for no block.
VoteDisabling ==
    (hs.op \in {"on_receive_proposal", "on_propose"} /\ hs.vote_disabled)
        => VotedNow(hs) = {}

\* with vote_disabled set, a proposal passed the vote decision (vheight is its
\* height) and no block of that height was ever voted for
AbstainedDisabled ==
    /\ hs.op = "on_receive_proposal"
    /\ hs.vote_disabled
    /\ \E i \in 1 .. Len(hs.fx) :
          /\ hs.fx[i].e = "resolve"
          /\ hs.fx[i].w = "receive_proposal_waiting"
          /\ hs.blocks[hs.fx[i].blk].height = hs.vheight
    /\ \A k \in 1 .. Len(hs.votelog) : hs.blocks[hs.votelog[k]].height # hs.vheight

\* C22 as claimed: on_receive_local_order returns true exactly when, after
\* the received order was stored, the cache held vectors of n_majority
\* replicas.
MajoritySignalClaimed ==
    hs.op = "on_receive_local_order" => (hs.ret = (env.stage = "pruned"))

\* C22: on_receive_local_order returns true exactly when the cache holds
\* vectors of n_majority replicas at its return, after the loop over the
\* fronts; with fewer than n_majority after storing it returns false.
MajoritySignal ==
    hs.op = "on_receive_local_order" =>
        /\ hs.ret = (get_local_order_cache_size(hs) >= hs.nmajority)
        /\ env.stage # "pruned" => hs.ret = FALSE

\* the loop over the fronts ran and left fewer than n_majority contributors
PrunedBelowMajority ==
    /\ hs.op = "on_receive_local_order"
    /\ env.stage = "pruned"
    /\ hs.ret = FALSE

\* the pacemaker proposes on top of fetched blocks: the parent and, possibly,
\* an uncle
ProposeOn ==
    /\ ~hs.crashed
    /\ Len(hs.blocks) <= env.lim.blocks
    /\ \E parents \in ParentHashes(hs), ub \in UBOutcomes :
          hs' = on_propose(fair_propose(Begin(hs, "on_propose")),
                           merge_orders(hs), parents, ub)
    /\ UNCHANGED <<env, net>>

TailsNext ==
    \/ Fetch
    \/ DeliverBlk
    \/ ProposeOn

\* blocks are fetched, delivered and proposed, and nothing else happens
SpecTails == DeliverInit /\ [][TailsNext]_vars

\* the delivered blocks that are a parent of no delivered block
ChildlessDelivered(s) ==
    {b \in 1 .. Len(s.blocks) :
        /\ s.blocks[b].delivered
        /\ \A c \in 1 .. Len(s.blocks) :
              s.blocks[c].delivered => ~Contains(s.blocks[c].parents, b)}

\* C23: whatever on_deliver_blk and on_propose calls were made, tails is the
\* set of the delivered blocks that are a parent of no delivered block.
TailsInvariant == hs.tails = ChildlessDelivered(hs)

(***************************************************************************)
(* The commit part of update.                                              *)
(***************************************************************************)
\* the blocks blk2, blk1 and blk that update(n) looks at, Null from the first
\* that is missing
QcChain(s, n) ==
    LET blk2 == s.blocks[n].qc_ref
        blk1 == IF blk2 = Null THEN Null ELSE s.blocks[blk2].qc_ref
        blk == IF blk1 = Null THEN Null ELSE s.blocks[blk1].qc_ref
    IN [blk2 |-> blk2, blk1 |-> blk1, blk |-> blk]

\* update(n) finds the three blocks, all undecided, and they are not directly
\* linked
NotDirect(s, n) ==
    LET q == QcChain(s, n)
    IN /\ s.blocks[n].delivered
       /\ q.blk2 # Null /\ q.blk1 # Null /\ q.blk # Null
       /\ s.blocks[q.blk2].decision = 0
       /\ s.blocks[q.blk1].decision = 0
       /\ s.blocks[q.blk].decision = 0
       /\ Parent(s, q.blk2) # q.blk1 \/ Parent(s, q.blk1) # q.blk

\* the call from st to sn committed nothing
CommitsNothing(st, sn) ==
    /\ \A b \in 1 .. Len(st.blocks) : sn.blocks[b].decision = st.blocks[b].decision
    /\ sn.b_exec = st.b_exec
    /\ HookBlocks(sn, "do_consensus") = {}
    /\ HookBlocks(sn, "do_decide") = {}

\* C24: an update that finds blk2, blk1 and blk, all undecided, with
\* blk2.parents[0] # blk1 or blk1.parents[0] # blk commits nothing: no
\* decision changes, b_exec stays and neither do_consensus nor do_decide is
\* called.
DirectLink ==
    [][\A n \in 2 .. Len(hs.blocks) :
          NotDirect(hs, n) /\ Processed(n) => CommitsNothing(hs, hs')]_vars

\* a proposal whose three blocks are not directly linked was processed, and
\* the lock went to blk1
IndirectProcessed ==
    /\ hs.op = "on_receive_proposal"
    /\ hs.err = ""
    /\ \E n \in HookBlocks(hs, "resolve") :
          /\ NotDirect(hs, n)
          /\ hs.b_lock = QcChain(hs, n).blk1

(***************************************************************************)
(* A follower of a chain that restarts: each block that arrives carries    *)
(* the certificate of the newest block and has that block or the genesis   *)
(* block as its parent; it is delivered as it arrives, and the newest      *)
(* block may arrive as a proposal.                                         *)
(***************************************************************************)
BreachBlocks == 7

BreachInit ==
    /\ hs = Started
    /\ net = <<>>
    /\ env = Limits(BreachBlocks, 0, 1, 0, 0)

\* a block arrives from the network and is delivered
ArriveOnTop ==
    /\ ~hs.crashed
    /\ Len(hs.blocks) <= env.lim.blocks
    /\ \E p \in {b0, Len(hs.blocks)} :
          hs' = on_deliver_blk(
                    add_blk(Begin(hs, "on_deliver_blk"),
                            NetBlock(<<p>>, NetQC(Len(hs.blocks)), NormalOrders)),
                    Len(hs.blocks) + 1)
    /\ UNCHANGED <<env, net>>

BreachNext ==
    \/ ArriveOnTop
    \/ ReceiveProposal

SpecBreach == BreachInit /\ [][BreachNext]_vars

\* update(n) finds blk2, blk1 and blk undecided and directly linked, and the
\* walk along parents[0] from blk down to the height of b_exec ends on a block
\* other than b_exec
WalkMisses(s, n) ==
    LET q == QcChain(s, n)
    IN /\ s.blocks[n].delivered
       /\ q.blk2 # Null /\ q.blk1 # Null /\ q.blk # Null
       /\ s.blocks[q.blk2].decision = 0
       /\ s.blocks[q.blk1].decision = 0
       /\ s.blocks[q.blk].decision = 0
       /\ Parent(s, q.blk2) = q.blk1 /\ Parent(s, q.blk1) = q.blk
       /\ WalkEnd(s, q.blk, s.blocks[s.b_exec].height, NoStale) \notin {s.b_exec, Null}

\* C25: an update whose walk from the block to commit down to the height of
\* b_exec ends on a block other than b_exec fails with the fatal error, and
\* the call commits nothing.
SafetyAssertion ==
    [][\A n \in 2 .. Len(hs.blocks) :
          WalkMisses(hs, n) /\ Processed(n)
          => hs'.err = "safety breached" /\ CommitsNothing(hs, hs')]_vars

\* a proposal ran into the fatal error after an earlier one had committed
BreachedAfterCommit ==
    /\ hs.op = "on_receive_proposal"
    /\ hs.err = "safety breached"
    /\ hs.b_exec # b0

(***************************************************************************)
(* A follower of one chain whose blocks carry various orders: each block   *)
(* that arrives extends and certifies the newest block; it is delivered as *)
(* it arrives, and the newest block may arrive as a proposal, so that      *)
(* several blocks can commit in one update.                                *)
(***************************************************************************)
BreakBlocks == 6

BreakInit ==
    /\ hs = Started
    /\ net = <<>>
    /\ env = Limits(BreakBlocks, 0, 1, 0, 0)

\* the orders maps of the blocks: one entry, with no command, with one, or
\* with two and the larger hash first
BreakOrders ==
    { <<[rid |-> 0, cmds |-> <<>>]>>,
      NormalOrders,
      <<[rid |-> 0, cmds |-> <<2, 1>>]>> }

\* a block arrives from the network and is delivered
ArriveWith ==
    /\ ~hs.crashed
    /\ Len(hs.blocks) <= env.lim.blocks
    /\ \E orders \in BreakOrders :
          hs' = on_deliver_blk(
                    add_blk(Begin(hs, "on_deliver_blk"),
                            NetBlock(<<Len(hs.blocks)>>, NetQC(Len(hs.blocks)), orders)),
                    Len(hs.blocks) + 1)
    /\ UNCHANGED <<env, net>>

BreakNext ==
    \/ ArriveWith
    \/ ReceiveProposal

SpecBreak == BreakInit /\ [][BreakNext]_vars

\* the commit_queue of update(n), oldest block first; empty when update(n)
\* does not get to the commit loop
CommitQueue(s, n) ==
    LET q == QcChain(s, n)
        h == s.blocks[s.b_exec].height
    IN IF /\ s.blocks[n].delivered
          /\ q.blk2 # Null /\ q.blk1 # Null /\ q.blk # Null
          /\ s.blocks[q.blk2].decision = 0
          /\ s.blocks[q.blk1].decision = 0
          /\ s.blocks[q.blk].decision = 0
          /\ Parent(s, q.blk2) = q.blk1 /\ Parent(s, q.blk1) = q.blk
          /\ WalkEnd(s, q.blk, h, NoStale) = s.b_exec
       THEN Reverse(WalkPath(s, q.blk, h, NoStale))
       ELSE <<>>

\* the places of queue whose block has a non-empty orders map for which
\* fair_finalize returns the empty sequence
BreakPlaces(s, queue) ==
    {i \in 1 .. Len(queue) : Breaks(s.blocks[queue[i]].orders)}

\* the blocks the last call passed to do_consensus or do_decide
Hooked(s) == HookBlocks(s, "do_consensus") \cup HookBlocks(s, "do_decide")

\* C26: when fair_finalize returns the empty sequence for a block of the
\* commit queue whose orders map is not empty, that block and the later ones
\* stay undecided and get no hook call, the earlier ones are committed, and
\* b_exec is the last block committed before it.
LoopBreak ==
    [][\A n \in 2 .. Len(hs.blocks) :
          LET queue == CommitQueue(hs, n)
              B == BreakPlaces(hs, queue)
          IN (Processed(n) /\ ~hs'.crashed /\ B # {})
             => LET k == CHOOSE i \in B : \A j \in B : i <= j
                IN /\ \A i \in k .. Len(queue) :
                         /\ hs'.blocks[queue[i]].decision = 0
                         /\ queue[i] \notin Hooked(hs')
                   /\ \A i \in 1 .. (k - 1) : hs'.blocks[queue[i]].decision = 1
                   /\ hs'.b_exec = IF k = 1 THEN hs.b_exec ELSE queue[k - 1]]_vars

\* one update committed a block and stopped at the next, with a third block
\* of the queue left behind it
StoppedInTheMiddle ==
    /\ hs.op = "on_receive_proposal"
    /\ hs.err = ""
    /\ ~hs.crashed
    /\ HookBlocks(hs, "do_consensus") = {hs.b_exec}
    /\ hs.b_exec # b0
    /\ \E c, d \in 2 .. Len(hs.blocks) :
          /\ Parent(hs, c) = hs.b_exec
          /\ Breaks(hs.blocks[c].orders)
          /\ hs.blocks[c].decision = 0
          /\ Parent(hs, d) = c
          /\ hs.blocks[d].decision = 0
          /\ \E n \in HookBlocks(hs, "resolve") : QcChain(hs, n).blk = d

\* the calls of do_consensus and do_decide of the last call, in their order
Hooks(s) == SelectSeq(s.fx, LAMBDA x : x.e \in {"do_consensus", "do_decide"})

\* the sequence fair_finalize returns for block b
FinalOrder(s, b) == fair_finalize(s.blocks[b].orders, Garbage)

\* the hook call x is the last one of its block
ClosesBlock(s, x) ==
    IF x.e = "do_consensus"
    THEN FinalOrder(s, x.blk) = <<>>
    ELSE x.cmd_idx = Len(FinalOrder(s, x.blk)) - 1

\* C27: the hook calls of one update are, block after block in strictly
\* increasing height, do_consensus(block) followed by the do_decide calls of
\* the block with cmd_idx 0, 1, ..., n - 1 and the commands in the order
\* fair_finalize returns.
EmissionOrder ==
    (hs.op = "on_receive_proposal" /\ ~hs.crashed) =>
        LET hooks == Hooks(hs)
        IN /\ \A i \in 1 .. Len(hooks) :
                 IF hooks[i].e = "do_consensus"
                 THEN i > 1 =>
                        /\ ClosesBlock(hs, hooks[i - 1])
                        /\ hs.blocks[hooks[i - 1].blk].height
                              < hs.blocks[hooks[i].blk].height
                 ELSE /\ i > 1
                      /\ hooks[i - 1].blk = hooks[i].blk
                      /\ IF hooks[i].cmd_idx = 0
                         THEN hooks[i - 1].e = "do_consensus"
                         ELSE /\ hooks[i - 1].e = "do_decide"
                              /\ hooks[i - 1].cmd_idx = hooks[i].cmd_idx - 1
                      /\ hooks[i].cmd_idx < Len(FinalOrder(hs, hooks[i].blk))
                      /\ hooks[i].cmd_hash
                            = FinalOrder(hs, hooks[i].blk)[hooks[i].cmd_idx + 1]
           /\ hooks # <<>> => ClosesBlock(hs, hooks[Len(hooks)])

\* one update committed two blocks, the first with two commands that
\* fair_finalize does not return in the order of their hashes
CommittedTwoInOrder ==
    /\ hs.op = "on_receive_proposal"
    /\ ~hs.crashed
    /\ \E i, j \in 1 .. Len(Hooks(hs)) :
          /\ i < j
          /\ Hooks(hs)[i].e = "do_consensus"
          /\ Hooks(hs)[j].e = "do_consensus"
          /\ FinalOrder(hs, Hooks(hs)[i].blk) = <<2, 1>>

(***************************************************************************)
(* Calls that are dropped or fail.                                         *)
(***************************************************************************)
\* C28: an on_receive_vote from a voter that is in the block's voted set
\* already changes nothing: every block's voted set and self_qc, hqc and the
\* qc waiters stay as they were, no certificate is computed and no waiter is
\* resolved.
DuplicateVoteDrop ==
    [][(hs'.op = "on_receive_vote" /\ env'.dup # Null) =>
          /\ \A b \in 1 .. Len(hs.blocks) :
                /\ hs'.blocks[b].voted = hs.blocks[b].voted
                /\ hs'.blocks[b].self_qc = hs.blocks[b].self_qc
          /\ hs'.hqc = hs.hqc
          /\ hs'.qc_waiting = hs.qc_waiting
          /\ hs'.fx = <<>>]_vars

\* a voter repeated its vote for a block that was one vote short of its quorum
RepeatedBeforeQuorum ==
    /\ hs.op = "on_receive_vote"
    /\ env.dup # Null
    /\ hs.err = ""
    /\ Cardinality(hs.blocks[env.dup].voted) + 1 = hs.nmajority

\* the events of the last call that a proposal going out makes: the vote, the
\* broadcast and the resolved propose waiter
ProposalEffects(s) ==
    SelectSeq(s.fx, LAMBDA x :
        \/ x.e \in {"do_vote", "do_broadcast_proposal"}
        \/ x.e = "resolve" /\ x.w = "propose_waiting")

\* C29: an on_propose whose new block, one above parents[0], is not higher
\* than vheight fails with a fatal error, and emits no vote, broadcasts no
\* proposal and resolves no propose waiter.
HeightRegression ==
    [][\A parents \in ParentHashes(hs), ub \in UBOutcomes :
          (/\ hs.blocks[parents[1]].height + 1 <= hs.vheight
           /\ hs' = on_propose(fair_propose(Begin(hs, "on_propose")),
                               merge_orders(hs), parents, ub))
          => /\ hs'.err # "" \/ hs'.crashed
             /\ ProposalEffects(hs') = <<>>]_vars

\* an on_propose on delivered parents failed for the height of its block
ProposedTooLow ==
    /\ hs.op = "on_propose"
    /\ hs.err = "new block should be higher than vheight"
    /\ hs.blocks[Len(hs.blocks)].delivered
    /\ hs.blocks[Len(hs.blocks)].height <= hs.vheight

\* C30: an on_receive_proposal from another replica for a block that is not
\* delivered fails and has no effect: hqc, b_lock, b_exec, vheight, the
\* decisions of the blocks and the waiters are as before, and no vote or
\* other event is emitted.
UndeliveredProposal ==
    [][\A n \in 2 .. Len(hs.blocks) :
          (~hs.blocks[n].delivered /\ Processed(n))
          => /\ hs'.err = "block not delivered"
             /\ hs'.hqc = hs.hqc
             /\ hs'.b_lock = hs.b_lock
             /\ hs'.b_exec = hs.b_exec
             /\ hs'.vheight = hs.vheight
             /\ \A b \in 1 .. Len(hs.blocks) :
                   hs'.blocks[b].decision = hs.blocks[b].decision
             /\ hs'.qc_waiting = hs.qc_waiting
             /\ hs'.fx = <<>>]_vars

\* a proposal arrived for a fetched block that carries a certificate for a
\* block above hqc and was not delivered
RefusedUndelivered ==
    /\ hs.op = "on_receive_proposal"
    /\ hs.err = "block not delivered"
    /\ \E n \in 2 .. Len(hs.blocks) :
          /\ ~hs.blocks[n].delivered
          /\ hs.blocks[n].qc.obj \in 2 .. Len(hs.blocks)
          /\ hs.blocks[hs.blocks[n].qc.obj].delivered
          /\ hs.blocks[hs.blocks[n].qc.obj].height > hs.blocks[hs.hqc.first].height

(***************************************************************************)
(* Blocks without commands, the comparator of fair_finalize and what       *)
(* follows from the rules above.                                           *)
(***************************************************************************)
\* C31: a block with an empty orders map that the commit loop reaches (no
\* block before it in the commit queue stops the loop) is marked committed
\* and passed to do_consensus, and no do_decide is called for it.
EmptyOrdersCommit ==
    [][\A n \in 2 .. Len(hs.blocks) :
          LET queue == CommitQueue(hs, n)
              B == BreakPlaces(hs, queue)
          IN Processed(n)
             => \A i \in 1 .. Len(queue) :
                   (hs.blocks[queue[i]].orders = <<>> /\ \A j \in B : i < j)
                   => /\ hs'.blocks[queue[i]].decision = 1
                      /\ queue[i] \in HookBlocks(hs', "do_consensus")
                      /\ queue[i] \notin HookBlocks(hs', "do_decide")]_vars

\* C32: on a map whose sequences are permutations of one command set the
\* comparator of the second sort of fair_finalize is a strict total order on
\* the commands: irreflexive, asymmetric, transitive and total.
StrictTotalOrder ==
    env.done =>
        LET K == OrderCmds(env.orders)
            lt == PairLess(env.orders, Garbage)
        IN /\ \A a \in K : ~lt[a][a]
           /\ \A a, b \in K : lt[a][b] => ~lt[b][a]
           /\ \A a, b, c \in K : lt[a][b] /\ lt[b][c] => lt[a][c]
           /\ \A a, b \in K : a # b => lt[a][b] \/ lt[b][a]

\* C33: the executed block is never above the locked block, and once a
\* block was committed it is strictly below it.
LockAboveExec ==
    /\ hs.blocks[hs.b_exec].height <= hs.blocks[hs.b_lock].height
    /\ hs.b_exec # b0 => hs.blocks[hs.b_exec].height < hs.blocks[hs.b_lock].height

\* an update committed a block, and the lock is the child of b_exec
CommittedBelowLock ==
    /\ hs.op = "on_receive_proposal"
    /\ hs.b_exec \in HookBlocks(hs, "do_consensus")
    /\ hs.b_exec # b0
    /\ hs.b_lock # hs.b_exec
    /\ Parent(hs, hs.b_lock) = hs.b_exec

\* the committed blocks the storage holds
Committed(s) == {b \in 1 .. Len(s.blocks) : s.blocks[b].stored /\ s.blocks[b].decision = 1}

\* C34 as claimed: every committed block is b_exec or an ancestor of b_exec
\* along parents[0], so no two committed blocks have the same height.
SingleBranchClaimed ==
    /\ Committed(hs) \subseteq Branch(hs, hs.b_exec)
    /\ \A a, b \in Committed(hs) :
          hs.blocks[a].height = hs.blocks[b].height => a = b

\* C35: a block whose orders map is not empty and holds only empty
\* sequences is never committed, and b_exec never becomes it or a block
\* above it on its chain.
PermanentStall ==
    \A x \in 2 .. Len(hs.blocks) :
        Breaks(hs.blocks[x].orders)
        => /\ hs.blocks[x].decision = 0
           /\ x \notin Branch(hs, hs.b_exec)

\* a second three-chain was formed above such a block, whose parent is b_exec
StalledTwice ==
    /\ hs.op = "on_receive_proposal"
    /\ ~hs.crashed
    /\ hs.err = ""
    /\ \E x, c \in 2 .. Len(hs.blocks) :
          /\ Breaks(hs.blocks[x].orders)
          /\ Parent(hs, x) = hs.b_exec
          /\ Parent(hs, c) = x
          /\ \E n \in HookBlocks(hs, "resolve") :
                /\ CommitQueue(hs, n) = <<x, c>>
                /\ QcChain(hs, n).blk = c

\* C36: the voted set of a delivered block other than the genesis block
\* never holds more than nmajority replicas, and an on_receive_vote for a
\* block that has nmajority voters changes nothing: no block, neither hqc
\* nor a waiter changes and no hook is called.
VoteSetBound ==
    /\ [](\A b \in 2 .. Len(hs.blocks) :
             hs.blocks[b].delivered => Cardinality(hs.blocks[b].voted) <= hs.nmajority)
    /\ [][\A voter \in Replicas, blk \in 2 .. Len(hs.blocks) :
             (/\ IsDelivered(hs, blk)
              /\ Cardinality(hs.blocks[blk].voted) >= hs.nmajority
              /\ hs' = on_receive_vote(Begin(hs, "on_receive_vote"), voter, blk))
             => /\ hs'.blocks = hs.blocks
                /\ hs'.hqc = hs.hqc
                /\ hs'.qc_waiting = hs.qc_waiting
                /\ hs'.fx = <<>>
                /\ hs'.err = ""]_vars

\* a vote of a replica that had not voted arrived while every delivered
\* block had a majority of voters, and nothing came of it
LateVoteDropped ==
    /\ hs.op = "on_receive_vote"
    /\ hs.err = ""
    /\ hs.fx = <<>>
    /\ env.dup = Null
    /\ \E b \in 2 .. Len(hs.blocks) : hs.blocks[b].delivered
    /\ \A b \in 2 .. Len(hs.blocks) :
          /\ hs.blocks[b].delivered
          /\ Cardinality(hs.blocks[b].voted) = hs.nmajority

\* a follower whose caller sets and clears vote_disabled
AbstainBlocks == 3
AbstainCalls == 2

AbstainInit ==
    /\ hs = Started
    /\ net = <<>>
    /\ env = Limits(AbstainBlocks, 1, RecvWindow, 0, AbstainCalls)

AbstainNext ==
    \/ AddBlk
    \/ DeliverBlk
    \/ ReceiveProposal
    \/ SetVoteDisabled

SpecAbstain == AbstainInit /\ [][AbstainNext]_vars

\* C37: with vote_disabled set, on_receive_proposal of a block that is higher
\* than vheight and passes the liveness or the safety condition makes vheight
\* the height of the block and votes for nothing; and since no call lowers
\* vheight or votes for a block that is not higher than vheight, no later
\* call votes for that block or for a block of its height or below.
DisabledStillAdvances ==
    [][/\ \A n \in 2 .. Len(hs.blocks) :
             (/\ Processed(n)
              /\ hs.vote_disabled
              /\ hs'.err = ""
              /\ hs.blocks[n].height > hs.vheight
              /\ LivenessCondition(hs', n) \/ SafetyCondition(hs', n))
             => /\ hs'.vheight = hs.blocks[n].height
                /\ VotedNow(hs') = {}
       /\ hs'.vheight >= hs.vheight
       /\ \A b \in VotedNow(hs') : hs'.blocks[b].height > hs.vheight]_vars

\* voting is enabled again, and a proposal was received and not voted for
\* whose block is not above the block that raised vheight without a vote
AbstainedForGood ==
    /\ hs.op = "on_receive_proposal"
    /\ hs.err = ""
    /\ ~hs.vote_disabled
    /\ VotedNow(hs) = {}
    /\ \A k \in 1 .. Len(hs.votelog) : hs.blocks[hs.votelog[k]].height # hs.vheight
    /\ \E b \in HookBlocks(hs, "resolve") :
          /\ hs.blocks[b].delivered
          /\ hs.blocks[b].height <= hs.vheight
          /\ hs.blocks[b].height > 1

\* the front vectors of the contributing replicas, in the order of the
\* replica vector
Fronts(s) ==
    LET replicas == get_ordered_hash_replia_vector(s)
    IN [j \in 1 .. Len(replicas) |-> get_ordered_hash_vector(s, replicas[j])]

\* the vectors of fs from the i-th on, one after the other
RECURSIVE Flatten(_, _)
Flatten(fs, i) == IF i > Len(fs) THEN <<>> ELSE fs[i] \o Flatten(fs, i + 1)

\* a is b with some of its elements left out
RECURSIVE IsSubseq(_, _)
IsSubseq(a, b) ==
    IF a = <<>> THEN TRUE
    ELSE IF b = <<>> THEN FALSE
    ELSE IF Head(a) = Head(b) THEN IsSubseq(Tail(a), Tail(b))
    ELSE IsSubseq(a, Tail(b))

\* the first place of c in v
FirstPos(v, c) == CHOOSE i \in 1 .. Len(v) : v[i] = c /\ \A k \in 1 .. (i - 1) : v[k] # c

\* what the sequence of the j-th contributor got appended to its front vector
Appended(fs, merged, j) == SubSeq(merged[j].cmds, Len(fs[j]) + 1, Len(merged[j].cmds))

\* C38: in the map fair_propose returns, the sequence of every contributing
\* replica is its front vector followed by commands the front vector does not
\* hold; what the first replica got appended comes in the order in which the
\* commands are first met in the front vectors of the other replicas, and
\* what another replica got appended comes in the order of the first
\* replica's final sequence.
MergeKeepsPrefixes ==
    [][hs'.op = "fair_propose" =>
          LET fs == Fronts(hs)
              merged == env'.merged
              others == Flatten(fs, 2)
          IN /\ Len(merged) = Len(fs)
             /\ \A j \in 1 .. Len(fs) :
                   /\ merged[j].rid = get_ordered_hash_replia_vector(hs)[j]
                   /\ Len(merged[j].cmds) >= Len(fs[j])
                   /\ SubSeq(merged[j].cmds, 1, Len(fs[j])) = fs[j]
                   /\ SeqToSet(Appended(fs, merged, j)) \cap SeqToSet(fs[j]) = {}
                   /\ j > 1 => IsSubseq(Appended(fs, merged, j), merged[1].cmds)
             /\ fs # <<>> =>
                   LET app == Appended(fs, merged, 1)
                   IN /\ SeqToSet(app) \subseteq SeqToSet(others)
                      /\ \A x, y \in SeqToSet(app) :
                            FirstPos(app, x) < FirstPos(app, y)
                            => FirstPos(others, x) < FirstPos(others, y)]_vars

\* two replicas contributed a command each that the other did not have, and
\* the first replica's sequence is not in the order of the hashes
MergedBothWays ==
    /\ hs.op = "fair_propose"
    /\ env.fronts = <<(<<2>>), (<<1>>)>>
    /\ env.merged[1].cmds = <<2, 1>>
    /\ env.merged[2].cmds = <<1, 2>>

====
